---- MODULE Spec2Model ----
(***************************************************************************)
(* A model of aibump (src/unnamed/part_002, the analyzer; src/src/index.ts *)
(* the command line entry).  Text is modelled as TLA+ strings, handled     *)
(* character by character the way the JavaScript string and regular        *)
(* expression functions of the source handle it.  A JavaScript exception   *)
(* is modelled as a result record with ok = FALSE.                         *)
(***************************************************************************)
EXTENDS Integers, Sequences, FiniteSets, TLC

VARIABLES
    (* the workspace on disk *)
    packageJson,      \* package.json:       [exists, version, fault]
    packageLock,      \* package-lock.json:  [exists, version, packages, fault]
    helmChart,        \* helm/Chart.yaml:    [exists, version, appVersion, fault]
    (* the git repository *)
    gitRepository,    \* whether the working directory is inside a git repository
    gitStatus,        \* git status: [staged, modified], sequences of changes
    gitHistory,       \* the changes of HEAD~N..HEAD, a sequence of changes
    (* one run of analyzeChanges *)
    options,          \* AnalyzeOptions
    pc,               \* where the run is
    combined,         \* the diff text collected
    filteredChanges,  \* the diff text after filterVersionChanges
    detectedChangeType, \* ChangeType.type
    versionType,      \* the bump kind fixed for the run
    attempt,          \* analyzeWithOpenAI: the attempt in progress
    apiCalls,         \* calls made to the external classifier
    messageCalls,     \* commit messages requested from the external API
    waits,            \* the waits between the attempts, in ms, in order
    written,          \* files written by the run, in order
    commits,          \* commits created by the run, in order
    failure,          \* the error the run ended with, "" when none
    before,           \* the workspace and the repository when the run started
    (* the arguments and the result of a pure function under check *)
    input,
    param,
    output

wsVars == <<packageJson, packageLock, helmChart>>
gitVars == <<gitRepository, gitStatus, gitHistory>>
runVars == <<options, pc, combined, filteredChanges, detectedChangeType,
             versionType, attempt, apiCalls, messageCalls, waits, written,
             commits, failure, before>>
fnVars == <<input, param, output>>
vars == <<wsVars, gitVars, runVars, fnVars>>

-----------------------------------------------------------------------------
(* JavaScript strings *)

Least(S) == CHOOSE a \in S : \A b \in S : a <= b

CharAt(s, i) == SubSeq(s, i, i)

StartsWith(s, p) == Len(s) >= Len(p) /\ SubSeq(s, 1, Len(p)) = p

MatchAt(s, i, p) == i >= 1 /\ i + Len(p) - 1 <= Len(s) /\ SubSeq(s, i, i + Len(p) - 1) = p

Includes(s, p) == \E i \in 1..(Len(s) - Len(p) + 1) : SubSeq(s, i, i + Len(p) - 1) = p

\* the least index >= from at which p occurs in s, 0 when there is none
IndexOfFrom(s, p, from) ==
    LET hits == {i \in from..(Len(s) + 1) : MatchAt(s, i, p)}
    IN IF hits = {} THEN 0 ELSE Least(hits)

IsSpace(c) == c \in {" ", "\t", "\r", "\n", "\f"}

IsDigit(c) == c \in {"0", "1", "2", "3", "4", "5", "6", "7", "8", "9"}

\* the first index >= i whose character is not white space (Len(s)+1 at the end)
RECURSIVE SkipSpaces(_, _)
SkipSpaces(s, i) ==
    IF i <= Len(s) /\ IsSpace(CharAt(s, i)) THEN SkipSpaces(s, i + 1) ELSE i

\* the last index <= i whose character is not white space (0 when none)
RECURSIVE SkipSpacesBack(_, _)
SkipSpacesBack(s, i) ==
    IF i >= 1 /\ IsSpace(CharAt(s, i)) THEN SkipSpacesBack(s, i - 1) ELSE i

Trim(s) == SubSeq(s, SkipSpaces(s, 1), SkipSpacesBack(s, Len(s)))

\* s.split(sep) for a one-character separator: never the empty sequence
RECURSIVE SplitAt(_, _, _)
SplitAt(s, at, start) ==
    LET rest == {p \in at : p >= start}
    IN IF rest = {} THEN <<SubSeq(s, start, Len(s))>>
       ELSE <<SubSeq(s, start, Least(rest) - 1)>> \o SplitAt(s, at, Least(rest) + 1)

Split(s, sep) == SplitAt(s, {i \in 1..Len(s) : CharAt(s, i) = sep}, 1)

\* parts.join(sep): the empty array gives the empty string
RECURSIVE Join(_, _)
Join(parts, sep) ==
    IF Len(parts) = 0 THEN ""
    ELSE IF Len(parts) = 1 THEN parts[1]
    ELSE parts[1] \o sep \o Join(Tail(parts), sep)

-----------------------------------------------------------------------------
(* JavaScript numbers, as far as version components need them *)

NaN == [nan |-> TRUE, val |-> 0]

Num(n) == [nan |-> FALSE, val |-> n]

DigitValue(c) == CHOOSE d \in 0..9 : CharAt("0123456789", d + 1) = c

RECURSIVE AllDigits(_)
AllDigits(s) ==
    Len(s) = 0 \/ (IsDigit(CharAt(s, 1)) /\ AllDigits(Tail(s)))

RECURSIVE DecimalValue(_)
DecimalValue(s) ==
    IF Len(s) = 0 THEN 0
    ELSE 10 * DecimalValue(SubSeq(s, 1, Len(s) - 1)) + DigitValue(CharAt(s, Len(s)))

RECURSIVE Pow(_, _)
Pow(base, n) == IF n = 0 THEN 1 ELSE base * Pow(base, n - 1)

\* the value of a digit in a radix up to 16, -1 for any other character
DigitIn(c, radix) ==
    LET at == {d \in 0..(radix - 1) :
                  CharAt("0123456789abcdef", d + 1) = c \/ CharAt("0123456789ABCDEF", d + 1) = c}
    IN IF at = {} THEN 0 - 1 ELSE CHOOSE d \in at : TRUE

RECURSIVE AllDigitsIn(_, _)
AllDigitsIn(s, radix) ==
    Len(s) = 0 \/ (DigitIn(CharAt(s, 1), radix) >= 0 /\ AllDigitsIn(Tail(s), radix))

RECURSIVE ValueIn(_, _)
ValueIn(s, radix) ==
    IF Len(s) = 0 THEN 0
    ELSE radix * ValueIn(SubSeq(s, 1, Len(s) - 1), radix) + DigitIn(CharAt(s, Len(s)), radix)

\* the radix of a literal that starts 0x, 0o or 0b, 0 for any other string
RadixOf(t) ==
    IF Len(t) < 2 \/ CharAt(t, 1) # "0" THEN 0
    ELSE CASE CharAt(t, 2) \in {"x", "X"} -> 16
           [] CharAt(t, 2) \in {"o", "O"} -> 8
           [] CharAt(t, 2) \in {"b", "B"} -> 2
           [] OTHER -> 0

\* decimal digits with an optional exponent part (a version component holds
\* no decimal point); a negative exponent gives the value when it is a whole
\* number
UnsignedDecimal(s) ==
    LET at == {i \in 1..Len(s) : CharAt(s, i) \in {"e", "E"}}
        e == Least(at)
        mantissa == SubSeq(s, 1, e - 1)
        rest == SubSeq(s, e + 1, Len(s))
        signed == rest # "" /\ CharAt(rest, 1) \in {"+", "-"}
        exponent == IF signed THEN Tail(rest) ELSE rest
    IN IF at = {}
       THEN IF s = "" \/ ~AllDigits(s) THEN NaN ELSE Num(DecimalValue(s))
       ELSE IF mantissa = "" \/ ~AllDigits(mantissa) \/ exponent = "" \/ ~AllDigits(exponent)
       THEN NaN
       ELSE IF signed /\ CharAt(rest, 1) = "-"
       THEN Num(DecimalValue(mantissa) \div Pow(10, DecimalValue(exponent)))
       ELSE Num(DecimalValue(mantissa) * Pow(10, DecimalValue(exponent)))

SignedDecimal(sign, body) ==
    IF UnsignedDecimal(body).nan THEN NaN
    ELSE IF sign = "-" THEN Num(0 - UnsignedDecimal(body).val)
    ELSE UnsignedDecimal(body)

\* Number(s): white space is trimmed, the empty string is 0; a literal with a
\* radix prefix takes no sign; a decimal literal takes an optional sign and an
\* optional exponent; anything else is NaN
NumberOfTrimmed(t) ==
    IF t = "" THEN Num(0)
    ELSE IF RadixOf(t) # 0
    THEN IF Len(t) > 2 /\ AllDigitsIn(SubSeq(t, 3, Len(t)), RadixOf(t))
         THEN Num(ValueIn(SubSeq(t, 3, Len(t)), RadixOf(t)))
         ELSE NaN
    ELSE IF CharAt(t, 1) \in {"-", "+"} THEN SignedDecimal(CharAt(t, 1), Tail(t))
    ELSE SignedDecimal("+", t)

Number(s) == NumberOfTrimmed(Trim(s))

\* the template literal `${n}` of an integer
RECURSIVE NatToString(_)
NatToString(n) ==
    IF n < 10 THEN CharAt("0123456789", n + 1)
    ELSE NatToString(n \div 10) \o CharAt("0123456789", (n % 10) + 1)

NumberToString(n) == IF n < 0 THEN "-" \o NatToString(0 - n) ELSE NatToString(n)

-----------------------------------------------------------------------------
(* Version arithmetic *)

BumpKinds == {"major", "minor", "patch"}

Ok(v) == [ok |-> TRUE, value |-> v, error |-> ""]

Err(e) == [ok |-> FALSE, value |-> "", error |-> e]

NoResult == [ok |-> FALSE, value |-> "", error |-> "not called"]

MapNumber(strs) == [i \in 1..Len(strs) |-> Number(strs[i])]

\* the switch of bumpVersion with the minor case not resetting the patch
\* component
bumpPartsMinorKeepsPatch(parts, type) ==
    IF Len(parts) # 3 \/ (\E i \in 1..Len(parts) : parts[i].nan)
    THEN Err("Invalid version format")
    ELSE CASE type = "major" ->
                Ok(NumberToString(parts[1].val + 1) \o ".0.0")
           [] type = "minor" ->
                Ok(NumberToString(parts[1].val) \o "." \o NumberToString(parts[2].val + 1)
                   \o "." \o NumberToString(parts[3].val))
           [] type = "patch" ->
                Ok(NumberToString(parts[1].val) \o "." \o NumberToString(parts[2].val)
                   \o "." \o NumberToString(parts[3].val + 1))
           [] OTHER -> Err("Invalid version type")

\* the check of the parts and the switch of bumpVersion
bumpParts(parts, type) ==
    IF Len(parts) # 3 \/ (\E i \in 1..Len(parts) : parts[i].nan)
    THEN Err("Invalid version format")
    ELSE CASE type = "major" ->
                Ok(NumberToString(parts[1].val + 1) \o ".0.0")
           [] type = "minor" ->
                Ok(NumberToString(parts[1].val) \o "." \o NumberToString(parts[2].val + 1)
                   \o ".0")
           [] type = "patch" ->
                Ok(NumberToString(parts[1].val) \o "." \o NumberToString(parts[2].val)
                   \o "." \o NumberToString(parts[3].val + 1))
           [] OTHER -> Err("Invalid version type")

bumpVersion(version, type) == bumpParts(MapNumber(Split(version, ".")), type)

-----------------------------------------------------------------------------
(* Regular expressions of the source *)

\* the first index >= i whose character is neither a digit nor a dot
RECURSIVE SkipDigitsDots(_, _)
SkipDigitsDots(s, i) ==
    IF i <= Len(s) /\ (IsDigit(CharAt(s, i)) \/ CharAt(s, i) = ".")
    THEN SkipDigitsDots(s, i + 1) ELSE i

\* /^[-+]\s*"version":\s*"[\d.]+",?\s*$/
isPackageJsonVersionLine(line) ==
    LET key == SkipSpaces(line, 2)
        open == SkipSpaces(line, key + 10)
        close == SkipDigitsDots(line, open + 1)
        rest == IF MatchAt(line, close + 1, ",") THEN close + 2 ELSE close + 1
    IN /\ Len(line) >= 1
       /\ CharAt(line, 1) \in {"-", "+"}
       /\ MatchAt(line, key, "\"version\":")
       /\ MatchAt(line, open, "\"")
       /\ close > open + 1
       /\ MatchAt(line, close, "\"")
       /\ SkipSpaces(line, rest) = Len(line) + 1

\* /^[-+](app)?[Vv]ersion:\s*[\d.]+\s*$/
isHelmVersionLine(line) ==
    LET key == IF MatchAt(line, 2, "app") THEN 5 ELSE 2
        value == SkipSpaces(line, key + 8)
        after == SkipDigitsDots(line, value)
    IN /\ Len(line) >= 1
       /\ CharAt(line, 1) \in {"-", "+"}
       /\ (MatchAt(line, key, "version:") \/ MatchAt(line, key, "Version:"))
       /\ after > value
       /\ SkipSpaces(line, after) = Len(line) + 1

isVersionLine(line) == isPackageJsonVersionLine(line) \/ isHelmVersionLine(line)

\* A regular expression made of literal characters, "." and "x*" (RegExp built
\* from a string by String.prototype.match).  MatchFrom tells whether re
\* matches a part of text that starts at one of the positions in at.
RECURSIVE MatchFrom(_, _, _)
MatchFrom(re, text, at) ==
    IF at = {} THEN FALSE
    ELSE IF re = "" THEN TRUE
    ELSE LET c == CharAt(re, 1)
             fits(p) == p <= Len(text) /\ (c = "." \/ CharAt(text, p) = c)
         IN IF Len(re) >= 2 /\ CharAt(re, 2) = "*"
            THEN MatchFrom(SubSeq(re, 3, Len(re)), text,
                           IF c = "." THEN Least(at)..(Len(text) + 1)
                           ELSE {q \in 1..(Len(text) + 1) :
                                    \E p \in at : p <= q /\ \A r \in p..(q - 1) : fits(r)})
            ELSE MatchFrom(Tail(re), text, {p + 1 : p \in {q \in at : fits(q)}})

\* the match is searched from every position of the text
RegexSearch(re, text) == MatchFrom(re, text, 1..(Len(text) + 1))

\* s.replace(from, to) with a string pattern: the first occurrence only
ReplaceFirst(s, from, to) ==
    LET i == IndexOfFrom(s, from, 1)
    IN IF i = 0 THEN s
       ELSE SubSeq(s, 1, i - 1) \o to \o SubSeq(s, i + Len(from), Len(s))

\* line.match(/diff --git a\/(.+?) b\//): the first group, "" when no match
HeaderStarts(line, minAfter) ==
    {p \in 1..Len(line) :
        /\ MatchAt(line, p, "diff --git a/")
        /\ \E q \in (p + 14)..Len(line) :
              MatchAt(line, q, " b/") /\ q + 2 + minAfter <= Len(line)}

HeaderPath(line, minAfter) ==
    LET starts == HeaderStarts(line, minAfter)
        p == CHOOSE a \in starts : \A b \in starts : a <= b
        ends == {q \in (p + 14)..Len(line) :
                    MatchAt(line, q, " b/") /\ q + 2 + minAfter <= Len(line)}
        q == CHOOSE a \in ends : \A b \in ends : a <= b
    IN IF starts = {} THEN "" ELSE SubSeq(line, p + 13, q - 1)

-----------------------------------------------------------------------------
(* Files left out of the analysis *)

EXCLUDED_FILES == <<"package-lock.json", "yarn.lock", "pnpm-lock.yaml",
                    "node_modules/", ".git/", "dist/", "build/", "coverage/",
                    ".nyc_output/", "*.log", "*.min.js", "*.min.css">>

matchesExcluded(file, excluded) ==
    \/ Includes(file, excluded)
    \/ /\ Includes(excluded, "*")
       /\ RegexSearch(ReplaceFirst(excluded, "*", ".*"), file)

\* isExcluded with an empty list of rules
isExcludedNever(file) == FALSE

isExcluded(file) ==
    \E k \in 1..Len(EXCLUDED_FILES) : matchesExcluded(file, EXCLUDED_FILES[k])

-----------------------------------------------------------------------------
(* filterVersionChanges *)

\* the loop of filterVersionChanges from line i on, skipNextLines = skip
RECURSIVE FilterFrom(_, _, _)
FilterFrom(lines, i, skip) ==
    IF i > Len(lines) THEN <<>>
    ELSE IF skip > 0 THEN FilterFrom(lines, i + 1, skip - 1)
    ELSE IF /\ isVersionLine(lines[i])
            /\ i + 1 <= Len(lines)
            /\ lines[i + 1] # ""
            /\ isVersionLine(lines[i + 1])
         THEN FilterFrom(lines, i + 1, 1)
    ELSE <<lines[i]>> \o FilterFrom(lines, i + 1, 0)

\* the same loop with the `continue` of the pair branch missing: the first
\* line of a pair is kept
RECURSIVE FilterFromKeepsFirst(_, _, _)
FilterFromKeepsFirst(lines, i, skip) ==
    IF i > Len(lines) THEN <<>>
    ELSE IF skip > 0 THEN FilterFromKeepsFirst(lines, i + 1, skip - 1)
    ELSE IF /\ isVersionLine(lines[i])
            /\ i + 1 <= Len(lines)
            /\ lines[i + 1] # ""
            /\ isVersionLine(lines[i + 1])
         THEN <<lines[i]>> \o FilterFromKeepsFirst(lines, i + 1, 1)
    ELSE <<lines[i]>> \o FilterFromKeepsFirst(lines, i + 1, 0)

\* the same loop without the look at the next line: every version line is
\* left out
RECURSIVE FilterFromDropsSingles(_, _)
FilterFromDropsSingles(lines, i) ==
    IF i > Len(lines) THEN <<>>
    ELSE IF isVersionLine(lines[i]) THEN FilterFromDropsSingles(lines, i + 1)
    ELSE <<lines[i]>> \o FilterFromDropsSingles(lines, i + 1)

filterVersionChangesDropsSingles(diff) ==
    Join(FilterFromDropsSingles(Split(diff, "\n"), 1), "\n")

filterVersionChangesKeepsFirst(diff) ==
    Join(FilterFromKeepsFirst(Split(diff, "\n"), 1, 0), "\n")

filterVersionChanges(diff) == Join(FilterFrom(Split(diff, "\n"), 1, 0), "\n")

-----------------------------------------------------------------------------
(* detectChangeType *)

helmScriptExtensions == <<".sh", ".bash", ".py", ".js", ".ts", ".rb", ".pl",
                          ".ps1", ".bat", ".cmd">>

isDiffMetadata(line) ==
    \/ StartsWith(line, "---")
    \/ StartsWith(line, "+++")
    \/ StartsWith(line, "@@")
    \/ StartsWith(line, "index ")
    \/ StartsWith(line, "new file mode")
    \/ StartsWith(line, "deleted file mode")
    \/ Trim(line) = ""

\* isHelmRelated looking for the charts/ directory instead of helm/
isHelmRelatedChartsDir(currentFile) ==
    StartsWith(currentFile, "charts/") /\ ~Includes(currentFile, "Chart.yaml")

isHelmRelated(currentFile) ==
    StartsWith(currentFile, "helm/") /\ ~Includes(currentFile, "Chart.yaml")

isHelmScript(currentFile) ==
    \E k \in 1..Len(helmScriptExtensions) :
        \/ Includes(currentFile, helmScriptExtensions[k])
        \/ Includes(currentFile, "scripts/")
        \/ Includes(currentFile, "hooks/")

NoFlags == [currentFile |-> "", helmChanges |-> FALSE, helmScriptChanges |-> FALSE,
            appChanges |-> FALSE, helmNonScriptChanges |-> FALSE]

\* a line of a file outside helm/ counted as an app change whether or not
\* there is a package.json
otherFileFlagsAlwaysApp(st, packageJsonExists) == [st EXCEPT !.appChanges = TRUE]

\* a line of a file that is not helm-related: an app change with package.json,
\* a helm change without
otherFileFlags(st, packageJsonExists) ==
    IF packageJsonExists
    THEN [st EXCEPT !.appChanges = TRUE]
    ELSE [st EXCEPT !.helmChanges = TRUE, !.helmNonScriptChanges = TRUE]

\* one iteration of the loop over the lines
DetectLine(st, line, packageJsonExists) ==
    IF StartsWith(line, "diff --git")
    THEN IF HeaderStarts(line, 0) # {}
         THEN [st EXCEPT !.currentFile = HeaderPath(line, 0)]
         ELSE st
    ELSE IF isDiffMetadata(line) THEN st
    ELSE IF isHelmRelated(st.currentFile)
         THEN IF isHelmScript(st.currentFile)
              THEN [st EXCEPT !.helmChanges = TRUE, !.helmScriptChanges = TRUE]
              ELSE [st EXCEPT !.helmChanges = TRUE, !.helmNonScriptChanges = TRUE]
    ELSE IF st.currentFile # "" THEN otherFileFlags(st, packageJsonExists)
    ELSE st

RECURSIVE DetectFlags(_, _, _, _)
DetectFlags(lines, i, st, packageJsonExists) ==
    IF i > Len(lines) THEN st
    ELSE DetectFlags(lines, i + 1, DetectLine(st, lines[i], packageJsonExists),
                     packageJsonExists)

ChangeTypeOf(type, helm, app) ==
    [type |-> type, helmChanges |-> helm, appChanges |-> app]

\* the decision with the test of the app changes first
decideChangeTypeAppFirst(f, packageJsonExists) ==
    IF ~packageJsonExists
    THEN IF f.helmChanges THEN ChangeTypeOf("helm-only", TRUE, FALSE)
         ELSE ChangeTypeOf("none", FALSE, FALSE)
    ELSE IF f.appChanges THEN ChangeTypeOf("app-only", FALSE, TRUE)
    ELSE IF f.helmChanges THEN ChangeTypeOf("helm-only", TRUE, FALSE)
    ELSE ChangeTypeOf("none", FALSE, FALSE)

\* the decision once the loop has set the flags f
decideChangeType(f, packageJsonExists) ==
    IF ~packageJsonExists
    THEN IF f.helmChanges THEN ChangeTypeOf("helm-only", TRUE, FALSE)
         ELSE ChangeTypeOf("none", FALSE, FALSE)
    ELSE IF /\ f.helmChanges /\ f.helmScriptChanges
            /\ ~f.helmNonScriptChanges /\ ~f.appChanges
         THEN ChangeTypeOf("helm-only", TRUE, FALSE)
    ELSE IF f.helmChanges /\ f.appChanges THEN ChangeTypeOf("both", TRUE, TRUE)
    ELSE IF f.helmChanges THEN ChangeTypeOf("helm-only", TRUE, FALSE)
    ELSE IF f.appChanges THEN ChangeTypeOf("app-only", FALSE, TRUE)
    ELSE ChangeTypeOf("none", FALSE, FALSE)

detectChangeType(changes, packageJsonExists) ==
    IF Trim(changes) = "" THEN ChangeTypeOf("none", FALSE, FALSE)
    ELSE decideChangeType(DetectFlags(Split(changes, "\n"), 1, NoFlags, packageJsonExists),
                          packageJsonExists)

-----------------------------------------------------------------------------
(* truncateDiffForCommit *)

estimateTokens(text) == (Len(text) + 3) \div 4

isTruncateHeaderLine(line) ==
    \/ StartsWith(line, "index ")
    \/ StartsWith(line, "---")
    \/ StartsWith(line, "+++")
    \/ StartsWith(line, "new file mode")
    \/ StartsWith(line, "deleted file mode")
    \/ StartsWith(line, "@@")

NewDiffFile(line) == [header |-> <<line>>, content |-> <<>>,
                      additions |-> 0, deletions |-> 0]

\* the first loop: the per-file split; files holds the files pushed so far
\* and the current file last (the empty sequence while currentFile is null)
RECURSIVE SplitDiffFiles(_, _, _)
SplitDiffFiles(lines, i, files) ==
    IF i > Len(lines) THEN files
    ELSE LET line == lines[i]
             n == Len(files)
             cur == files[n]
         IN IF StartsWith(line, "diff --git")
            THEN SplitDiffFiles(lines, i + 1, Append(files, NewDiffFile(line)))
            ELSE IF n = 0 THEN SplitDiffFiles(lines, i + 1, files)
            ELSE IF isTruncateHeaderLine(line)
                 THEN SplitDiffFiles(lines, i + 1,
                          [files EXCEPT ![n].header = Append(cur.header, line)])
            ELSE SplitDiffFiles(lines, i + 1,
                     [files EXCEPT
                        ![n].content = Append(cur.content, line),
                        ![n].additions =
                            IF StartsWith(line, "+") /\ ~StartsWith(line, "+++")
                            THEN cur.additions + 1 ELSE cur.additions,
                        ![n].deletions =
                            IF ~(StartsWith(line, "+") /\ ~StartsWith(line, "+++"))
                               /\ StartsWith(line, "-") /\ ~StartsWith(line, "---")
                            THEN cur.deletions + 1 ELSE cur.deletions])

truncationSummary(file) ==
    "... [" \o NumberToString(file.additions) \o " additions, "
    \o NumberToString(file.deletions) \o " deletions - content truncated] ...\n"

\* s.substring(0, end): end is clamped to the length of s
substring(s, end) == SubSeq(s, 1, IF end > Len(s) THEN Len(s) ELSE end)

\* the second loop, from file k on: the parts pushed to result
RECURSIVE TruncateFiles(_, _, _, _)
TruncateFiles(files, k, tokensUsed, targetTokens) ==
    IF k > Len(files) THEN <<>>
    ELSE LET file == files[k]
             headerText == Join(file.header, "\n")
             used == tokensUsed + estimateTokens(headerText)
             contentText == Join(file.content, "\n")
             contentTokens == estimateTokens(contentText)
             remainingChars == (targetTokens - used) * 4
             partialContent ==
                 Join(SubSeq(file.content, 1, (Len(file.content) * 3) \div 10), "\n")
             truncatedPartial == substring(partialContent, remainingChars - 200)
         IN IF used + contentTokens < targetTokens
            THEN <<headerText, contentText>>
                 \o TruncateFiles(files, k + 1, used + contentTokens, targetTokens)
            ELSE IF remainingChars > 200
                 THEN <<headerText, truncatedPartial, "\n" \o truncationSummary(file)>>
                 ELSE <<headerText, truncationSummary(file)>>

truncateDiffForCommit(diff, maxTokens) ==
    IF estimateTokens(diff) <= maxTokens THEN diff
    ELSE Join(TruncateFiles(SplitDiffFiles(Split(diff, "\n"), 1, <<>>), 1, 0, maxTokens),
              "\n")

-----------------------------------------------------------------------------
(* What git gives for a change: the text of `git diff` for one file.  A    *)
(* change is [path, kind]; the kind names the content of the file's diff.  *)

ChangeKinds == {"edit", "long", "mode", "empty", "bump", "barebump", "comment"}

Change(path, kind) == [path |-> path, kind |-> kind]

\* the hunk of a version bump, with the unchanged lines git shows around it:
\* the bump that gave the manifest the version it holds
BumpHunk(path) ==
    IF Includes(path, "Chart.yaml")
    THEN "@@ -1,5 +1,5 @@\n apiVersion: v2\n name: chart\n-version: 0.9.0\n+version: 1.0.0\n appVersion: 2.3.1\n"
    ELSE "@@ -1,5 +1,5 @@\n {\n   \"name\": \"app\",\n-  \"version\": \"2.3.0\",\n+  \"version\": \"2.3.1\",\n   \"main\": \"index.js\",\n"

\* the same hunk of a file that holds the version line alone
BareBumpHunk(path) ==
    IF Includes(path, "Chart.yaml")
    THEN "@@ -1 +1 @@\n-version: 0.9.0\n+version: 1.0.0\n"
    ELSE "@@ -1 +1 @@\n-  \"version\": \"2.3.0\",\n+  \"version\": \"2.3.1\",\n"

RECURSIVE Repeat(_, _)
Repeat(s, n) == IF n = 0 THEN "" ELSE s \o Repeat(s, n - 1)

\* a hunk of twelve added lines of forty characters
LongHunk ==
    "@@ -1,2 +1,14 @@\n first line\n"
    \o Repeat("+const value = computeSomething(arg1, 2);\n", 12) \o " last line\n"

\* a hunk that replaces one line of a file whose comments start with two
\* dashes: the deleted line shows with three dashes in the diff
CommentHunk ==
    "@@ -1,3 +1,3 @@\n create table t (id int);\n--- drop the old table\n+-- keep the table\n"

\* git prints a path with bytes outside ASCII escaped and in double quotes
\* (core.quotePath); such a path is held here as git prints it
GitQuotes(path) == Includes(path, "\\")

FileDiff(change) ==
    LET p == change.path
        head == IF GitQuotes(p)
                THEN "diff --git \"a/" \o p \o "\" \"b/" \o p \o "\"\n"
                ELSE "diff --git a/" \o p \o " b/" \o p \o "\n"
        names == IF GitQuotes(p)
                 THEN "--- \"a/" \o p \o "\"\n+++ \"b/" \o p \o "\"\n"
                 ELSE "--- a/" \o p \o "\n+++ b/" \o p \o "\n"
    IN CASE change.kind = "edit" ->
              head \o "index 83db48f..bf2a1c7 100644\n" \o names
              \o "@@ -1,3 +1,3 @@\n first line\n-old line\n+new line\n"
         [] change.kind = "long" ->
              head \o "index 83db48f..bf2a1c7 100644\n" \o names \o LongHunk
         [] change.kind = "mode" ->
              head \o "old mode 100644\nnew mode 100755\n"
         [] change.kind = "empty" ->
              head \o "new file mode 100644\nindex 0000000..e69de29\n"
         [] change.kind = "bump" ->
              head \o "index 83db48f..bf2a1c7 100644\n" \o names \o BumpHunk(p)
         [] change.kind = "barebump" ->
              head \o "index 83db48f..bf2a1c7 100644\n" \o names \o BareBumpHunk(p)
         [] change.kind = "comment" ->
              head \o "index 83db48f..bf2a1c7 100644\n" \o names \o CommentHunk

RECURSIVE GitDiff(_)
GitDiff(changes) ==
    IF Len(changes) = 0 THEN ""
    ELSE FileDiff(changes[1]) \o GitDiff(Tail(changes))

-----------------------------------------------------------------------------
(* Values of the variables a specification does not use *)

\* fault is what the file system does with the file: "read" when it cannot be
\* read, "parse" when its content is no JSON or YAML, "write" when it cannot
\* be written, "" when none of these
NoFile == [exists |-> FALSE, version |-> "", fault |-> ""]

NoLock == [exists |-> FALSE, version |-> "", packages |-> "", fault |-> ""]

NoChart == [exists |-> FALSE, version |-> "", appVersion |-> "", fault |-> ""]

PackageFile(version, fault) == [exists |-> TRUE, version |-> version, fault |-> fault]

LockFile(version, packages, fault) ==
    [exists |-> TRUE, version |-> version, packages |-> packages, fault |-> fault]

ChartFile(version, appVersion, fault) ==
    [exists |-> TRUE, version |-> version, appVersion |-> appVersion, fault |-> fault]

NoOptions == [dryRun |-> FALSE, noCommit |-> FALSE, commit |-> TRUE, staged |-> FALSE,
              unstaged |-> FALSE, both |-> FALSE, lastCommits |-> "",
              override |-> ""]

NoSnapshot == [packageJson |-> NoFile, packageLock |-> NoLock, helmChart |-> NoChart,
               gitRepository |-> TRUE, gitStatus |-> [staged |-> <<>>, modified |-> <<>>], gitHistory |-> <<>>]

WorkspaceIdle ==
    /\ packageJson = NoFile
    /\ packageLock = NoLock
    /\ helmChart = NoChart
    /\ gitRepository = TRUE
    /\ gitStatus = [staged |-> <<>>, modified |-> <<>>]
    /\ gitHistory = <<>>

RunIdle ==
    /\ options = NoOptions
    /\ pc = "idle"
    /\ combined = ""
    /\ filteredChanges = ""
    /\ detectedChangeType = ""
    /\ versionType = ""
    /\ attempt = 0
    /\ apiCalls = 0
    /\ messageCalls = 0
    /\ waits = <<>>
    /\ written = <<>>
    /\ commits = <<>>
    /\ failure = ""
    /\ before = NoSnapshot

-----------------------------------------------------------------------------
(* bumpVersion applied to every short string over BumpAlphabet *)

MaxVersionLen == 6

BumpAlphabet == {"0", "1", "9", "."}

RECURSIVE StringsUpTo(_, _)
StringsUpTo(alphabet, n) ==
    IF n = 0 THEN {""}
    ELSE LET shorter == StringsUpTo(alphabet, n - 1)
         IN shorter \cup {s \o c : s \in shorter, c \in alphabet}

\* version strings with a sign, white space, an exponent, a radix prefix or
\* other text in a component
OddVersions == {"-1.0.0", "1.-2.3", "+1.2.3", " 1.2.3", "1.2.3 ", "1. 2.3", "1.2.3\n",
                "1e2.0.0", "1.2E1.3", "0x10.0.0", "1.0.0b1", "1.2.0o7",
                "v1.2.3", "1.2.x", "1.2.3-rc1", "1.2.3e", "0x.0.0", "-0x1.0.0", "1.2.-"}

InitBump ==
    /\ WorkspaceIdle
    /\ RunIdle
    /\ input \in StringsUpTo(BumpAlphabet, MaxVersionLen) \cup OddVersions
    /\ param \in BumpKinds
    /\ output = NoResult

ApplyBumpVersion ==
    /\ output = NoResult
    /\ output' = bumpVersion(input, param)
    /\ UNCHANGED <<wsVars, gitVars, runVars, input, param>>

NextBump == ApplyBumpVersion

SpecBump == InitBump /\ [][NextBump]_vars

\* the input is three dot-separated non-empty runs of decimal digits
IsVersionTriple(s) ==
    LET parts == Split(s, ".")
    IN Len(parts) = 3 /\ \A i \in 1..3 : Len(parts[i]) > 0 /\ AllDigits(parts[i])

TripleOf(s) == LET parts == Split(s, ".") IN [i \in 1..3 |-> DecimalValue(parts[i])]

LexLess(a, b) ==
    \/ a[1] < b[1]
    \/ a[1] = b[1] /\ a[2] < b[2]
    \/ a[1] = b[1] /\ a[2] = b[2] /\ a[3] < b[3]

\* C5: for a version M.m.p of three non-negative integers bumpVersion returns
\* M+1.0.0 for major, M.m+1.0 for minor and M.m.p+1 for patch; the result is
\* strictly greater in (major, minor, patch) order and every component below
\* the incremented one is zero.
C5_BumpArithmetic ==
    (output # NoResult /\ IsVersionTriple(input)) =>
        LET v == TripleOf(input)
            w == IF output.ok /\ IsVersionTriple(output.value)
                 THEN TripleOf(output.value) ELSE <<0, 0, 0>>
        IN /\ output.ok
           /\ IsVersionTriple(output.value)
           /\ param = "major" => w = <<v[1] + 1, 0, 0>>
           /\ param = "minor" => w = <<v[1], v[2] + 1, 0>>
           /\ param = "patch" => w = <<v[1], v[2], v[3] + 1>>
           /\ output.value = Join(<<NatToString(w[1]), NatToString(w[2]), NatToString(w[3])>>, ".")
           /\ LexLess(v, w)

\* a minor bump of a version with a non-zero patch and a carry in the minor
C5_Witness ==
    /\ input = "1.9.1"
    /\ param = "minor"
    /\ output = Ok("1.10.0")

\* C21: bumpVersion fails with 'Invalid version format' for every input that
\* is not exactly three dot-separated runs of decimal digits: an empty
\* component, a negative component, a component in exponent or hexadecimal
\* notation and surrounding white space are all rejected.
C21_InvalidFormatRejected ==
    (output # NoResult /\ ~IsVersionTriple(input)) => output = Err("Invalid version format")

-----------------------------------------------------------------------------
(* filterVersionChanges applied, and applied again to its own result, to   *)
(* every short sequence of the lines of FilterLines                        *)

MaxFilterLines == 4

FilterLines == {"-  \"version\": \"1.0.0\",",
                "+  \"version\": \"1.1.0\",",
                "-version: 0.1.0",
                "+appVersion: 1.1.0",
                "+version: 1.1.0-rc1",
                " name: chart",
                ""}

SeqsUpTo(S, n) == UNION {[1..k -> S] : k \in 0..n}

InitFilter ==
    /\ WorkspaceIdle
    /\ RunIdle
    /\ input \in {Join(ls, "\n") : ls \in SeqsUpTo(FilterLines, MaxFilterLines)}
    /\ param = ""
    /\ output = <<>>

\* output holds the results of the successive applications
ApplyFilterVersionChanges ==
    /\ Len(output) < 2
    /\ output' = Append(output, filterVersionChanges(
                                   IF output = <<>> THEN input ELSE output[Len(output)]))
    /\ UNCHANGED <<wsVars, gitVars, runVars, input, param>>

NextFilter == ApplyFilterVersionChanges

SpecFilter == InitFilter /\ [][NextFilter]_vars

\* C7: filterVersionChanges is idempotent: applied to its own result it
\* returns that result, for every diff text, runs of three or more
\* consecutive version lines included.
C7_FilterIdempotent ==
    Len(output) = 2 => output[2] = output[1]

\* two adjacent version lines, one a deletion and the other an addition
SignedPairAt(lines, i) ==
    /\ isVersionLine(lines[i])
    /\ isVersionLine(lines[i + 1])
    /\ CharAt(lines[i], 1) # CharAt(lines[i + 1], 1)

\* C20: two adjacent version lines are removed only when one is a deletion
\* and the other an addition: a diff without such a pair, whatever adjacent
\* additions or adjacent deletions it holds, is returned as it is.
C20_OnlySignedPairsRemoved ==
    LET lines == Split(input, "\n")
    IN (Len(output) >= 1 /\ \A i \in 1..(Len(lines) - 1) : ~SignedPairAt(lines, i))
       => output[1] = input

\* the lines without those at the indices of removed
RECURSIVE WithoutLines(_, _, _)
WithoutLines(lines, i, removed) ==
    IF i > Len(lines) THEN <<>>
    ELSE (IF i \in removed THEN <<>> ELSE <<lines[i]>>) \o WithoutLines(lines, i + 1, removed)

\* every removed line is a version line removed with a version line next to it
AdjacentVersionLines(lines, removed) ==
    \A i \in removed :
        /\ isVersionLine(lines[i])
        /\ \/ i + 1 \in removed /\ isVersionLine(lines[i + 1])
           \/ i - 1 \in removed /\ isVersionLine(lines[i - 1])

\* C29: the result of filterVersionChanges is the sequence of the input's
\* lines with some lines removed, none added, altered or reordered; every
\* removed line matches a version pattern and is removed together with a
\* matching line next to it, so a line that matches no pattern and a matching
\* line without a matching neighbour are kept.
C29_OnlyAdjacentPairsRemoved ==
    Len(output) >= 1 =>
        LET lines == Split(input, "\n")
        IN /\ \E removed \in SUBSET (1..Len(lines)) :
                 /\ output[1] = Join(WithoutLines(lines, 1, removed), "\n")
                 /\ AdjacentVersionLines(lines, removed)
           /\ \A i \in 1..Len(lines) :
                 (\/ ~isVersionLine(lines[i])
                  \/ /\ i = 1 \/ ~isVersionLine(lines[i - 1])
                     /\ i = Len(lines) \/ ~isVersionLine(lines[i + 1]))
                 => \E k \in 1..Len(Split(output[1], "\n")) :
                        Split(output[1], "\n")[k] = lines[i]

\* a version pair is removed; the line after it and a version line without a
\* neighbour are kept
C29_Witness ==
    /\ input = "-  \"version\": \"1.0.0\",\n+  \"version\": \"1.1.0\",\n name: chart\n-version: 0.1.0"
    /\ Len(output) >= 1
    /\ output[1] = " name: chart\n-version: 0.1.0"

\* a run of three version lines, of which the first two are removed
C7_Witness ==
    /\ input = "-version: 0.1.0\n+appVersion: 1.1.0\n+  \"version\": \"1.1.0\",\n name: chart"
    /\ output = <<"+  \"version\": \"1.1.0\",\n name: chart",
                  "+  \"version\": \"1.1.0\",\n name: chart">>

-----------------------------------------------------------------------------
(* detectChangeType applied to the diff of every short sequence of changes *)

MaxDetectFiles == 2

DetectPaths == {"helm/scripts/deploy.sh", "helm/hooks/pre-install", "helm/crds/gen.py",
                "helm/templates/deployment.yaml", "src/index.ts"}

ManifestPaths == {"helm/Chart.yaml", "package.json"}

DetectChanges ==
    {Change(p, k) : p \in DetectPaths, k \in {"edit", "mode", "empty"}}
    \cup {Change(p, k) : p \in ManifestPaths, k \in {"edit", "bump", "barebump"}}

NoChangeType == ChangeTypeOf("not called", FALSE, FALSE)

InitDetect ==
    /\ WorkspaceIdle
    /\ RunIdle
    /\ input \in SeqsUpTo(DetectChanges, MaxDetectFiles)
    /\ param \in BOOLEAN
    /\ output = NoChangeType

\* param is packageJsonExists
ApplyDetectChangeType ==
    /\ output = NoChangeType
    /\ output' = detectChangeType(GitDiff(input), param)
    /\ UNCHANGED <<wsVars, gitVars, runVars, input, param>>

NextDetect == ApplyDetectChangeType

SpecDetect == InitDetect /\ [][NextDetect]_vars

\* a helm script as the claim describes it: under helm/, not Chart.yaml, with
\* a script extension or under scripts/ or hooks/
EndsWith(s, p) == Len(s) >= Len(p) /\ SubSeq(s, Len(s) - Len(p) + 1, Len(s)) = p

IsHelmScriptPath(path) ==
    /\ StartsWith(path, "helm/")
    /\ path # "helm/Chart.yaml"
    /\ \/ \E e \in {".sh", ".bash", ".py", ".js", ".ts", ".rb", ".pl", ".ps1", ".bat", ".cmd"} :
             EndsWith(path, e)
       \/ Includes(path, "/scripts/")
       \/ Includes(path, "/hooks/")

OnlyHelmScripts(changes) ==
    /\ Len(changes) > 0
    /\ \A i \in 1..Len(changes) : IsHelmScriptPath(changes[i].path)

C27_NoPackageJsonNoAppChanges ==
    (output # NoChangeType /\ ~param) =>
        /\ output.type \in {"helm-only", "none"}
        /\ ~output.appChanges
        /\ output = IF \E i \in 1..Len(input) : input[i].kind # "empty"
                    THEN ChangeTypeOf("helm-only", TRUE, FALSE)
                    ELSE ChangeTypeOf("none", FALSE, FALSE)

\* an application file alone, in a workspace without package.json
C27_Witness ==
    /\ input = <<Change("src/index.ts", "edit")>>
    /\ ~param
    /\ output = ChangeTypeOf("helm-only", TRUE, FALSE)

\* the ordered decision table over the three aggregated booleans
DecisionTable(infraScript, infraNonScript, app) ==
    IF infraScript /\ ~infraNonScript /\ ~app THEN "helm-only"
    ELSE IF (infraScript \/ infraNonScript) /\ app THEN "both"
    ELSE IF infraScript \/ infraNonScript THEN "helm-only"
    ELSE IF app THEN "app-only"
    ELSE "none"

\* the flags of the loop of detectChangeType for three aggregated booleans
FlagsOf(infraScript, infraNonScript, app) ==
    [currentFile |-> "", helmChanges |-> infraScript \/ infraNonScript,
     helmScriptChanges |-> infraScript, appChanges |-> app,
     helmNonScriptChanges |-> infraNonScript]

TableHoldsFor(f, type) ==
    type = DecisionTable(f.helmScriptChanges, f.helmNonScriptChanges, f.appChanges)

\* C19: detectChangeType returns the value of the ordered decision table for
\* the three booleans aggregated over the diff, and none for a diff without a
\* changed file; the decision agrees with the table on every combination of
\* the booleans (app changes are only ever flagged with package.json present).
C19_DecisionTable ==
    /\ output # NoChangeType =>
          /\ TableHoldsFor(DetectFlags(Split(GitDiff(input), "\n"), 1, NoFlags, param),
                           output.type)
          /\ input = <<>> => output.type = "none"
    /\ \A s \in BOOLEAN, n \in BOOLEAN, a \in BOOLEAN, p \in BOOLEAN :
          (a => p) => decideChangeType(FlagsOf(s, n, a), p).type = DecisionTable(s, n, a)

\* a helm script and an application file changed: both
C19_Witness ==
    /\ input = <<Change("helm/scripts/deploy.sh", "edit"), Change("src/index.ts", "edit")>>
    /\ param
    /\ output = ChangeTypeOf("both", TRUE, TRUE)

-----------------------------------------------------------------------------
(* The test of EXCLUDED_FILES applied to the paths of ExcludedTestPaths    *)

PathDirs == {"", "src/", "logs/", "dist/", "src/admin/js/", "helm/templates/"}

PathNames == {"catalog", "debug", "login", "app", "app.min", "index"}

PathExtensions == {".ts", ".log", ".js", ".css", ".yaml"}

ExcludedTestPaths == {d \o n \o e : d \in PathDirs, n \in PathNames, e \in PathExtensions}

NotTested == [called |-> FALSE, excluded |-> FALSE]

InitExcluded ==
    /\ WorkspaceIdle
    /\ RunIdle
    /\ input \in ExcludedTestPaths
    /\ param = ""
    /\ output = NotTested

ApplyIsExcluded ==
    /\ output = NotTested
    /\ output' = [called |-> TRUE, excluded |-> isExcluded(input)]
    /\ UNCHANGED <<wsVars, gitVars, runVars, input, param>>

NextExcluded == ApplyIsExcluded

SpecExcluded == InitExcluded /\ [][NextExcluded]_vars

\* the literal text of a rule: the rule without its wildcard
RuleText(rule) == IF StartsWith(rule, "*") THEN Tail(rule) ELSE rule

\* C28: a path is excluded only if it contains the literal text of a rule of
\* EXCLUDED_FILES, for a wildcard rule the suffix after the *: a path that
\* holds the letters of the suffix without its dot, such as src/catalog.ts
\* for *.log, is not excluded.
C28_ExcludedOnlyBySuffix ==
    (output.called /\ output.excluded)
    => \E k \in 1..Len(EXCLUDED_FILES) : Includes(input, RuleText(EXCLUDED_FILES[k]))

-----------------------------------------------------------------------------
(* detectChangeType applied to diffs that hold a file whose header line    *)
(* the pattern of the loop does not match: a path git prints in quotes     *)

QuotedPath == "src/caf\\303\\251.ts"

HeaderChanges ==
    {Change("helm/scripts/deploy.sh", "edit"), Change("helm/scripts/deploy.sh", "empty"),
     Change("helm/templates/deployment.yaml", "edit"),
     Change("helm/templates/deployment.yaml", "empty"),
     Change("src/index.ts", "edit"), Change("src/index.ts", "empty"),
     Change(QuotedPath, "edit"), Change(QuotedPath, "empty")}

InitHeader ==
    /\ WorkspaceIdle
    /\ RunIdle
    /\ input \in SeqsUpTo(HeaderChanges, MaxDetectFiles)
    /\ param \in BOOLEAN
    /\ output = NoChangeType

SpecHeader == InitHeader /\ [][NextDetect]_vars

\* the changes whose header line gives a path
WellFormed(changes) == SelectSeq(changes, LAMBDA c : ~GitQuotes(c.path))

\* C26: a file whose 'diff --git' line cannot be parsed into a path is
\* skipped: its lines are attributed to no file, not to the file parsed
\* before it, and set no flag, and the well-formed files after it are still
\* classified, so the result is that of the diff without the file.
C26_UnparsedFileSkipped ==
    output # NoChangeType => output = detectChangeType(GitDiff(WellFormed(input)), param)

-----------------------------------------------------------------------------
(* truncateDiffForCommit applied to the diff of every short sequence of    *)
(* changes, for the budgets of TruncBudgets                                *)

MaxTruncFiles == 3

TruncBudgets == {2, 40, 100, 150}

TruncChanges ==
    {Change(p, k) : p \in {"src/index.ts", "helm/values.yaml"}, k \in {"edit", "long", "mode"}}
    \cup {Change("db/schema.sql", "comment")}

InitTrunc ==
    /\ WorkspaceIdle
    /\ RunIdle
    /\ input \in {GitDiff(cs) : cs \in SeqsUpTo(TruncChanges, MaxTruncFiles)}
    /\ param \in TruncBudgets
    /\ output = NoResult

\* param is maxTokens
ApplyTruncateDiffForCommit ==
    /\ output = NoResult
    /\ output' = Ok(truncateDiffForCommit(input, param))
    /\ UNCHANGED <<wsVars, gitVars, runVars, input, param>>

NextTrunc == ApplyTruncateDiffForCommit

SpecTrunc == InitTrunc /\ [][NextTrunc]_vars

\* C8: the estimated token count of the truncated diff is at most the budget.
C8_TruncatedWithinBudget ==
    output # NoResult => estimateTokens(output.value) <= param

\* the number of lines that start with the prefix
CountStarting(lines, prefix) == Len(SelectSeq(lines, LAMBDA l : StartsWith(l, prefix)))

\* the index of the line that starts the k-th file of a diff, one past the
\* last line when the diff has fewer files
FileStart(lines, k) ==
    LET starts == {i \in 1..Len(lines) :
                      /\ StartsWith(lines[i], "diff --git")
                      /\ CountStarting(SubSeq(lines, 1, i), "diff --git") = k}
    IN IF starts = {} THEN Len(lines) + 1 ELSE Least(starts)

\* the lines of the hunks of the k-th file: from its first @@ line to the
\* next file
HunkLines(lines, k) ==
    LET from == FileStart(lines, k)
        to == FileStart(lines, k + 1) - 1
        hunks == {i \in from..to : StartsWith(lines[i], "@@")}
    IN IF hunks = {} THEN <<>> ELSE SubSeq(lines, Least(hunks), to)

\* the summary line for the added and deleted lines of the k-th file: inside
\* a hunk every line that starts with + is an added line, every line that
\* starts with - a deleted one
TrueSummary(lines, k) ==
    "[" \o NumberToString(CountStarting(HunkLines(lines, k), "+")) \o " additions, "
    \o NumberToString(CountStarting(HunkLines(lines, k), "-"))
    \o " deletions - content truncated]"

\* C25: the summary line of the file truncateDiffForCommit truncates, the last
\* file whose header the result holds, reports the number of added and of
\* deleted lines of that file in the input, whatever the text of the lines.
C25_SummaryCountsLines ==
    (output # NoResult /\ Includes(output.value, "content truncated]"))
    => Includes(output.value,
                TrueSummary(Split(input, "\n"),
                            CountStarting(Split(output.value, "\n"), "diff --git")))

-----------------------------------------------------------------------------
(* Collecting the changes of the working directory or of the last commits *)

\* the paths of the repository, in the order git lists them
RepoPaths == <<"helm/Chart.yaml", "helm/scripts/deploy.sh",
               "helm/templates/deployment.yaml", "logs/debug.log",
               "package-lock.json", "package.json", "src/index.ts">>

\* a set of changes, one per path, as the sequence git reports
RECURSIVE InPathOrder(_, _)
InPathOrder(changes, k) ==
    IF k > Len(RepoPaths) THEN <<>>
    ELSE LET here == {c \in changes : c.path = RepoPaths[k]}
         IN (IF here = {} THEN <<>> ELSE <<CHOOSE c \in here : TRUE>>)
            \o InPathOrder(changes, k + 1)

Range(seq) == {seq[i] : i \in 1..Len(seq)}

PathsOf(changes) == {changes[i].path : i \in 1..Len(changes)}

relevantFiles(changes) == SelectSeq(changes, LAMBDA c : ~isExcluded(c.path))

getStagedChanges(status) ==
    IF Len(status.staged) = 0 THEN ""
    ELSE IF Len(relevantFiles(status.staged)) = 0 THEN ""
    ELSE GitDiff(relevantFiles(status.staged))

\* status.created, status.deleted, status.not_added and status.renamed are empty
getUnstagedChanges(status) ==
    IF Len(relevantFiles(status.modified)) = 0 THEN ""
    ELSE GitDiff(relevantFiles(status.modified))

getChanges(opts, status) ==
    LET default == ~opts.staged /\ ~opts.unstaged /\ ~opts.both
        staged == IF opts.staged \/ opts.both \/ default
                  THEN getStagedChanges(status) ELSE ""
        unstaged == IF opts.unstaged \/ opts.both \/ default
                    THEN getUnstagedChanges(status) ELSE ""
    IN IF staged # "" /\ unstaged # ""
       THEN "=== STAGED CHANGES ===\n" \o staged
            \o "\n\n=== UNSTAGED CHANGES ===\n" \o unstaged
       ELSE IF staged # "" THEN "=== STAGED CHANGES ===\n" \o staged
       ELSE IF unstaged # "" THEN "=== UNSTAGED CHANGES ===\n" \o unstaged
       ELSE ""

\* the loop of getLastCommitsChanges from line i on
RECURSIVE LinesKept(_, _, _)
LinesKept(lines, i, skipFile) ==
    IF i > Len(lines) THEN <<>>
    ELSE LET line == lines[i]
             parsed == StartsWith(line, "diff --git") /\ HeaderStarts(line, 1) # {}
             skip == IF parsed THEN isExcluded(HeaderPath(line, 1)) ELSE skipFile
         IN (IF skip THEN <<>> ELSE <<line>>) \o LinesKept(lines, i + 1, skip)

\* history is what git diff HEAD~N HEAD reports
getLastCommitsChanges(history) ==
    LET diff == GitDiff(history)
    IN IF Trim(diff) = "" THEN ""
       ELSE Join(LinesKept(Split(diff, "\n"), 1, FALSE), "\n")

\* the index of the first character that is not a decimal digit
RECURSIVE SkipDigits(_, _)
SkipDigits(s, i) ==
    IF i <= Len(s) /\ IsDigit(CharAt(s, i)) THEN SkipDigits(s, i + 1) ELSE i

\* parseInt(s, 10): leading white space, an optional sign, the leading digits
parseInt(s) ==
    LET start == SkipSpaces(s, 1)
        signed == MatchAt(s, start, "-") \/ MatchAt(s, start, "+")
        first == IF signed THEN start + 1 ELSE start
        last == SkipDigits(s, first)
        value == DecimalValue(SubSeq(s, first, last - 1))
    IN IF last = first THEN NaN
       ELSE IF MatchAt(s, start, "-") THEN Num(0 - value) ELSE Num(value)

-----------------------------------------------------------------------------
(* Choosing the bump kind *)

LowerOf(c) ==
    LET upper == "ABCDEFGHIJKLMNOPQRSTUVWXYZ"
        lower == "abcdefghijklmnopqrstuvwxyz"
        at == {k \in 1..26 : CharAt(upper, k) = c}
    IN IF at = {} THEN c ELSE CharAt(lower, CHOOSE k \in at : TRUE)

RECURSIVE toLowerCase(_)
toLowerCase(s) ==
    IF s = "" THEN "" ELSE LowerOf(CharAt(s, 1)) \o toLowerCase(Tail(s))

IsQuote(c) == c \in {"\"", "'"}

\* s.replace(/^["']|["']$/g, '')
StripQuotes(s) ==
    LET from == IF Len(s) >= 1 /\ IsQuote(CharAt(s, 1)) THEN 2 ELSE 1
        to == IF Len(s) >= from /\ IsQuote(CharAt(s, Len(s))) THEN Len(s) - 1 ELSE Len(s)
    IN SubSeq(s, from, to)

\* what analyzeWithOpenAI makes of the content of a completion
cleanResponse(content) == toLowerCase(Trim(StripQuotes(Trim(content))))

maxRetries == 3

-----------------------------------------------------------------------------
(* Rewriting the manifests *)

\* the versions the manifests of the runs hold
PackageVersions == {"2.3.1"}

ChartVersions == {"1.0.0"}

\* a version string bumpVersion rejects
MalformedVersion == "1.2.x"

\* bumpVersion, tabulated over the versions of the manifests
bumpVersionOf ==
    [version \in PackageVersions \cup ChartVersions \cup {MalformedVersion},
     type \in BumpKinds |-> bumpVersion(version, type)]

Workspace(pj, pl, hc) == [packageJson |-> pj, packageLock |-> pl, helmChart |-> hc]

\* the outcome of a step of the bump: the workspace it leaves, the files it
\* wrote, and the error it threw if it did
Done(ws, files) == [ok |-> TRUE, ws |-> ws, written |-> files, error |-> ""]

Thrown(ws, files, error) == [ok |-> FALSE, ws |-> ws, written |-> files, error |-> error]

\* the error readFileSync and the parser throw for a file, "" when the
\* content is read and parsed
readError(file) ==
    IF ~file.exists THEN "ENOENT: no such file or directory"
    ELSE IF file.fault = "read" THEN "EACCES: permission denied"
    ELSE IF file.fault = "parse" THEN "Unexpected token"
    ELSE ""

\* the error writeFileSync throws for a file, "" when it writes
writeError(file) == IF file.fault = "write" THEN "EACCES: permission denied" ELSE ""

\* readHelmChart: null for an absent chart, an error for one that cannot be
\* read or parsed
readHelmChart(hc) ==
    IF hc.exists /\ readError(hc) # "" THEN "Failed to read Helm Chart.yaml: " \o readError(hc)
    ELSE ""

writeHelmChart(hc) ==
    IF writeError(hc) # "" THEN "Failed to write Helm Chart.yaml: " \o writeError(hc)
    ELSE ""

\* the chart with its version and its appVersion set alike
chartWithVersionAndAppVersion(ws, newVersion) ==
    IF ~newVersion.ok THEN Thrown(ws, <<>>, newVersion.error)
    ELSE IF writeHelmChart(ws.helmChart) # "" THEN Thrown(ws, <<>>, writeHelmChart(ws.helmChart))
    ELSE Done([ws EXCEPT !.helmChart.version = newVersion.value,
                         !.helmChart.appVersion = newVersion.value],
              <<"helm/Chart.yaml">>)

\* the chart with its version set, once bumpVersion returned
chartWithVersion(ws, newVersion) ==
    IF ~newVersion.ok THEN Thrown(ws, <<>>, newVersion.error)
    ELSE IF writeHelmChart(ws.helmChart) # "" THEN Thrown(ws, <<>>, writeHelmChart(ws.helmChart))
    ELSE Done([ws EXCEPT !.helmChart.version = newVersion.value], <<"helm/Chart.yaml">>)

bumpHelmChartVersion(ws, type) ==
    IF readHelmChart(ws.helmChart) # "" THEN Thrown(ws, <<>>, readHelmChart(ws.helmChart))
    ELSE IF ~ws.helmChart.exists
         THEN Thrown(ws, <<>>, "Helm Chart.yaml not found. Cannot bump Helm chart version.")
    ELSE IF ws.helmChart.version = ""
         THEN Thrown(ws, <<>>, "Helm Chart.yaml does not contain a version field.")
    ELSE chartWithVersion(ws, bumpVersionOf[ws.helmChart.version, type])

\* the error thrown inside the try of updatePackageLockVersion, "" when the
\* lock file is written or there is none
lockError(ws) ==
    IF readError(ws.packageJson) # "" THEN readError(ws.packageJson)
    ELSE IF ~ws.packageLock.exists THEN ""
    ELSE IF readError(ws.packageLock) # "" THEN readError(ws.packageLock)
    ELSE writeError(ws.packageLock)

\* the catch of updatePackageLockVersion throwing the error on
lockErrorThrown(ws, error) == Thrown(ws, <<>>, error)

\* the catch of updatePackageLockVersion: a warning is logged and the function
\* returns
lockErrorCaught(ws, error) == Done(ws, <<>>)

\* packages is the version of the entry packages[''], "" when the lock file
\* has no such entry
updatePackageLockVersion(ws) ==
    IF lockError(ws) # "" THEN lockErrorCaught(ws, lockError(ws))
    ELSE IF ~ws.packageLock.exists THEN Done(ws, <<>>)
    ELSE Done([ws EXCEPT !.packageLock.version = ws.packageJson.version,
                         !.packageLock.packages =
                             IF ws.packageLock.packages # "" THEN ws.packageJson.version
                             ELSE ""],
              <<"package-lock.json">>)

\* the catch of bumpNpmVersion
npmThrown(ws, files, error) == Thrown(ws, files, "Failed to bump npm version: " \o error)

\* package.json once written, then the lock file
packageJsonWritten(lock) ==
    IF lock.ok THEN Done(lock.ws, <<"package.json">> \o lock.written)
    ELSE npmThrown(lock.ws, <<"package.json">> \o lock.written, lock.error)

packageJsonWithVersion(ws, newVersion) ==
    IF ~newVersion.ok THEN npmThrown(ws, <<>>, newVersion.error)
    ELSE IF writeError(ws.packageJson) # "" THEN npmThrown(ws, <<>>, writeError(ws.packageJson))
    ELSE packageJsonWritten(
             updatePackageLockVersion([ws EXCEPT !.packageJson.version = newVersion.value]))

bumpNpmVersion(ws, type) ==
    IF readError(ws.packageJson) # "" THEN npmThrown(ws, <<>>, readError(ws.packageJson))
    ELSE IF ws.packageJson.version = ""
         THEN npmThrown(ws, <<>>, "package.json does not contain a version field.")
    ELSE packageJsonWithVersion(ws, bumpVersionOf[ws.packageJson.version, type])

\* syncHelmAppVersion leaving the chart as it is
syncHelmAppVersionSkipped(ws) == Done(ws, <<>>)

syncHelmAppVersion(ws) ==
    IF readHelmChart(ws.helmChart) # "" THEN Thrown(ws, <<>>, readHelmChart(ws.helmChart))
    ELSE IF ~ws.helmChart.exists THEN Done(ws, <<>>)
    ELSE IF ~ws.packageJson.exists THEN Done(ws, <<>>)
    ELSE IF readError(ws.packageJson) # "" THEN Thrown(ws, <<>>, readError(ws.packageJson))
    ELSE IF writeHelmChart(ws.helmChart) # "" THEN Thrown(ws, <<>>, writeHelmChart(ws.helmChart))
    ELSE Done([ws EXCEPT !.helmChart.appVersion = ws.packageJson.version],
              <<"helm/Chart.yaml">>)

\* the files of both steps, in the order they were written; an error of the
\* second step leaves executeVersionBump with the first step's files written
bothWritten(npm, sync) ==
    IF sync.ok THEN Done(sync.ws, npm.written \o sync.written)
    ELSE Thrown(sync.ws, npm.written \o sync.written, sync.error)

\* syncHelmAppVersion runs once bumpNpmVersion returned
npmThenSync(npm) ==
    IF ~npm.ok THEN npm ELSE bothWritten(npm, syncHelmAppVersion(npm.ws))

executeVersionBump(ws, versionKind, changeType) ==
    IF changeType = "helm-only" THEN bumpHelmChartVersion(ws, versionKind)
    ELSE IF changeType \in {"app-only", "both"}
         THEN IF ws.packageJson.exists
              THEN npmThenSync(bumpNpmVersion(ws, versionKind))
              ELSE bumpHelmChartVersion(ws, versionKind)
    ELSE Done(ws, <<>>)

\* the catch of executeVersionBump
executeVersionBumpError(result) ==
    IF result.ok THEN "" ELSE "Failed to execute version bump: " \o result.error

-----------------------------------------------------------------------------
(* executeVersionBump applied, for every bump kind and change type, to the *)
(* workspaces of ExecWorkspaces: manifests and lock file present or not,   *)
(* with and without a version, unreadable, malformed or read-only          *)

FileFaults == {"read", "parse", "write"}

ExecPackageFiles ==
    {NoFile, PackageFile("2.3.1", ""), PackageFile("", ""), PackageFile(MalformedVersion, "")}
    \cup {PackageFile("2.3.1", f) : f \in FileFaults}

ExecLockFiles ==
    {NoLock, LockFile("2.3.1", "2.3.1", ""), LockFile("2.3.1", "", "")}
    \cup {LockFile("2.3.1", "2.3.1", f) : f \in FileFaults}

ExecChartFiles ==
    {NoChart, ChartFile("1.0.0", "2.3.1", ""), ChartFile("", "2.3.1", ""),
     ChartFile(MalformedVersion, "2.3.1", "")}
    \cup {ChartFile("1.0.0", "2.3.1", f) : f \in FileFaults}

ExecWorkspaces ==
    {Workspace(pj, pl, hc) : pj \in ExecPackageFiles, pl \in ExecLockFiles, hc \in ExecChartFiles}

NotExecuted == [ok |-> FALSE, written |-> <<>>, error |-> "not called"]

\* input is the workspace before the call, param the arguments
InitExec ==
    /\ input \in ExecWorkspaces
    /\ packageJson = input.packageJson
    /\ packageLock = input.packageLock
    /\ helmChart = input.helmChart
    /\ gitRepository = TRUE
    /\ gitStatus = [staged |-> <<>>, modified |-> <<>>]
    /\ gitHistory = <<>>
    /\ RunIdle
    /\ param \in [versionType : BumpKinds,
                   changeType : {"helm-only", "app-only", "both", "none"}]
    /\ output = NotExecuted

\* the files the call leaves and what it reports to its caller
Executed(result) ==
    /\ packageJson' = result.ws.packageJson
    /\ packageLock' = result.ws.packageLock
    /\ helmChart' = result.ws.helmChart
    /\ output' = [ok |-> result.ok, written |-> result.written,
                  error |-> executeVersionBumpError(result)]

ApplyExecuteVersionBump ==
    /\ output = NotExecuted
    /\ Executed(executeVersionBump(input, param.versionType, param.changeType))
    /\ UNCHANGED <<gitVars, runVars, input, param>>

NextExec == ApplyExecuteVersionBump

SpecExec == InitExec /\ [][NextExec]_vars

\* the file is there, readable, well-formed and writable
Healthy(file) == file.exists /\ file.fault = ""

\* C23: when executeVersionBump fails after package.json was rewritten, on the
\* read or the write of helm/Chart.yaml in syncHelmAppVersion, the error it
\* throws names the manifest that failed and every file that was written.
C23_FailureNamesWrittenManifests ==
    (/\ output # NotExecuted
     /\ ~output.ok
     /\ "package.json" \in Range(output.written))
    => /\ Includes(output.error, "Chart.yaml")
       /\ \A i \in 1..Len(output.written) : Includes(output.error, output.written[i])

\* C30: with a package.json that can be bumped, a lock file that is absent,
\* unreadable, not valid JSON or read-only does not fail bumpNpmVersion:
\* package.json holds the bumped version, the lock file is left as it was and
\* the call goes on to syncHelmAppVersion; a lock file that is refreshed holds
\* the new version, in packages[''] too when it has that entry.
C30_LockRefreshBestEffort ==
    (/\ output # NotExecuted
     /\ param.changeType \in {"app-only", "both"}
     /\ Healthy(input.packageJson)
     /\ input.packageJson.version \in PackageVersions)
    => /\ packageJson.version
             = bumpVersion(input.packageJson.version, param.versionType).value
       /\ Head(output.written) = "package.json"
       /\ ~Includes(output.error, "npm")
       /\ ~Includes(output.error, "package")
       /\ ~Healthy(input.packageLock)
             => /\ packageLock = input.packageLock
                /\ "package-lock.json" \notin Range(output.written)
       /\ Healthy(input.packageLock)
             => /\ "package-lock.json" \in Range(output.written)
                /\ packageLock.version = packageJson.version
                /\ packageLock.packages
                      = IF input.packageLock.packages # "" THEN packageJson.version ELSE ""
       /\ Healthy(input.helmChart)
             => (output.ok /\ helmChart.appVersion = packageJson.version)
       /\ ~input.helmChart.exists => (output.ok /\ helmChart = input.helmChart)

\* a lock file that is not valid JSON: package.json is bumped and the chart
\* synchronised
C30_Witness ==
    /\ input.packageLock = LockFile("2.3.1", "2.3.1", "parse")
    /\ param = [versionType |-> "patch", changeType |-> "app-only"]
    /\ output = [ok |-> TRUE, written |-> <<"package.json", "helm/Chart.yaml">>, error |-> ""]
    /\ packageJson.version = "2.3.2"
    /\ packageLock = input.packageLock
    /\ helmChart.appVersion = "2.3.2"

-----------------------------------------------------------------------------
(* Two runs, as separate processes, in executeVersionBump on one workspace. *)
(* Each read and each write of a file is a step of its own: nothing in the  *)
(* code keeps the other process out between them.  pc, param and output     *)
(* hold one value per process: where the process is, the arguments of its   *)
(* call and its local variables.  input is the workspace at the start.      *)

Procs == {1, 2}

RaceChangeTypes == {"helm-only", "app-only"}

NoLocals == [read |-> "", version |-> "", chart |-> NoChart]

InitRace ==
    /\ input = Workspace(PackageFile("2.3.1", ""), NoLock, ChartFile("1.0.0", "2.3.1", ""))
    /\ packageJson = input.packageJson
    /\ packageLock = input.packageLock
    /\ helmChart = input.helmChart
    /\ gitRepository = TRUE
    /\ gitStatus = [staged |-> <<>>, modified |-> <<>>]
    /\ gitHistory = <<>>
    /\ options = NoOptions
    /\ pc = [p \in Procs |-> "read"]
    /\ combined = ""
    /\ filteredChanges = ""
    /\ detectedChangeType = ""
    /\ versionType = ""
    /\ attempt = 0
    /\ apiCalls = 0
    /\ messageCalls = 0
    /\ waits = <<>>
    /\ written = <<>>
    /\ commits = <<>>
    /\ failure = ""
    /\ before = NoSnapshot
    /\ param \in [Procs -> [versionType : BumpKinds, changeType : RaceChangeTypes]]
    /\ output = [p \in Procs |-> NoLocals]

raceVars == <<gitVars, options, combined, filteredChanges, detectedChangeType, versionType,
              attempt, apiCalls, messageCalls, waits, commits, failure, before, input, param>>

\* the new version computed from the file as it is when it is written, as if
\* the read, the bump and the write were one step
versionToWriteFresh(readVersion, onDisk, type) == bumpVersion(onDisk, type).value

\* the new version is computed from what the process read
versionToWrite(readVersion, onDisk, type) == bumpVersion(readVersion, type).value

\* readHelmChart of bumpHelmChartVersion, readFileSync of bumpNpmVersion
ReadManifest(p) ==
    /\ pc[p] = "read"
    /\ output' = IF param[p].changeType = "helm-only"
                 THEN [output EXCEPT ![p].read = helmChart.version, ![p].chart = helmChart]
                 ELSE [output EXCEPT ![p].read = packageJson.version]
    /\ pc' = [pc EXCEPT ![p] = "write"]
    /\ UNCHANGED <<wsVars, written, raceVars>>

\* writeHelmChart of bumpHelmChartVersion, writeFileSync of bumpNpmVersion
\* (there is no lock file to refresh)
WriteManifest(p) ==
    /\ pc[p] = "write"
    /\ IF param[p].changeType = "helm-only"
       THEN /\ helmChart' = [output[p].chart EXCEPT !.version =
                                 versionToWrite(output[p].read, helmChart.version,
                                                param[p].versionType)]
            /\ written' = Append(written, "helm/Chart.yaml")
            /\ pc' = [pc EXCEPT ![p] = "done"]
            /\ UNCHANGED packageJson
       ELSE /\ packageJson' = [packageJson EXCEPT !.version =
                                   versionToWrite(output[p].read, packageJson.version,
                                                  param[p].versionType)]
            /\ written' = Append(written, "package.json")
            /\ pc' = [pc EXCEPT ![p] = "sync"]
            /\ UNCHANGED helmChart
    /\ UNCHANGED <<packageLock, output, raceVars>>

\* syncHelmAppVersion: readHelmChart and the read of package.json
SyncRead(p) ==
    /\ pc[p] = "sync"
    /\ output' = [output EXCEPT ![p].chart = helmChart, ![p].version = packageJson.version]
    /\ pc' = [pc EXCEPT ![p] = "syncwrite"]
    /\ UNCHANGED <<wsVars, written, raceVars>>

\* syncHelmAppVersion: writeHelmChart of the chart as it was read
SyncWrite(p) ==
    /\ pc[p] = "syncwrite"
    /\ helmChart' = [output[p].chart EXCEPT !.appVersion = output[p].version]
    /\ written' = Append(written, "helm/Chart.yaml")
    /\ pc' = [pc EXCEPT ![p] = "done"]
    /\ UNCHANGED <<packageJson, packageLock, output, raceVars>>

NextRace ==
    \E p \in Procs :
        \/ ReadManifest(p)
        \/ WriteManifest(p)
        \/ SyncRead(p)
        \/ SyncWrite(p)

SpecRace == InitRace /\ [][NextRace]_vars

\* both processes are through executeVersionBump
RaceDone == \A p \in Procs : pc[p] = "done"

BumpedBy(version, p) == bumpVersion(version, param[p].versionType).value

\* what two processes that bump the same manifest leave in it: when both read
\* the version of the start, one bump of it, the other being lost; otherwise
\* the bump of the one on top of the bump of the other
AfterBoth(start, final) ==
    IF \A p \in Procs : output[p].read = start
    THEN \E p \in Procs : final = BumpedBy(start, p)
    ELSE \E p, q \in Procs :
            /\ p # q
            /\ output[p].read = start
            /\ output[q].read = BumpedBy(start, p)
            /\ final = BumpedBy(BumpedBy(start, p), q)

\* C24: two runs as separate processes on one workspace can both read the
\* manifest before either writes it, and the manifest is then bumped once,
\* not twice: the write of bumpNpmVersion and of bumpHelmChartVersion is the
\* bump of the version the process read, whatever the file holds by then.
C24_LostUpdate ==
    RaceDone =>
        /\ (\A p \in Procs : param[p].changeType = "app-only")
              => AfterBoth(input.packageJson.version, packageJson.version)
        /\ (\A p \in Procs : param[p].changeType = "helm-only")
              => AfterBoth(input.helmChart.version, helmChart.version)

\* both runs read package.json at 2.3.1 and both wrote 2.3.2
C24_Witness ==
    /\ RaceDone
    /\ \A p \in Procs : param[p] = [versionType |-> "patch", changeType |-> "app-only"]
    /\ \A p \in Procs : output[p].read = "2.3.1"
    /\ Len(SelectSeq(written, LAMBDA w : w = "package.json")) = 2
    /\ packageJson.version = "2.3.2"

-----------------------------------------------------------------------------
(* The run: analyzeChanges and analyzeLastCommits *)

MaxChangedFiles == 2

\* the workspaces of the runs that pass validateEnvironment, and the one with
\* neither manifest
Workspaces ==
    {Workspace(pj, pl, hc) :
        pj \in {NoFile} \cup {PackageFile(v, "") : v \in PackageVersions},
        pl \in {NoLock} \cup {LockFile(v, v, "") : v \in PackageVersions},
        hc \in {NoChart} \cup {ChartFile(v, a, "") : v \in ChartVersions, a \in PackageVersions}}

\* workspaces with a manifest that cannot be read, is malformed or has no
\* version field
InvalidWorkspaces ==
    {Workspace(PackageFile("", ""), NoLock, ChartFile("1.0.0", "2.3.1", "")),
     Workspace(PackageFile("", "parse"), NoLock, NoChart),
     Workspace(PackageFile("2.3.1", "read"), LockFile("2.3.1", "2.3.1", ""), NoChart),
     Workspace(PackageFile("2.3.1", ""), NoLock, ChartFile("", "2.3.1", "")),
     Workspace(NoFile, NoLock, ChartFile("", "", "parse")),
     Workspace(PackageFile("2.3.1", ""), NoLock, ChartFile("1.0.0", "2.3.1", "read"))}

RunChanges ==
    {Change("helm/Chart.yaml", "bump"), Change("helm/Chart.yaml", "barebump"),
     Change("helm/scripts/deploy.sh", "edit"),
     Change("helm/templates/deployment.yaml", "edit"),
     Change("logs/debug.log", "edit"), Change("package-lock.json", "edit"),
     Change("package.json", "bump"), Change("src/index.ts", "edit")}

\* at most one change per path
ChangeSets ==
    {S \in SUBSET RunChanges :
        /\ Cardinality(S) <= MaxChangedFiles
        /\ \A a, b \in S : a.path = b.path => a = b}

Overrides == {"", "Minor", "patch", "feature"}

AnalysisFlags == {"staged", "unstaged", "both", "default"}

\* the options object commander builds from the command line and the action
\* hands to analyzeChanges: the option declared as --no-commit gives the field
\* commit, true unless the flag is given; no option of the program gives
\* noCommit or override, which stay undefined
commanderOptions(dryRun, noCommitGiven, flag, lastCommits) ==
    [dryRun |-> dryRun, noCommit |-> FALSE, commit |-> ~noCommitGiven,
     staged |-> flag = "staged", unstaged |-> flag = "unstaged",
     both |-> flag = "both", lastCommits |-> lastCommits, override |-> ""]

\* the options of a caller of analyzeChanges other than the command line
\* (commit, which AnalyzeOptions does not declare, reads as not given)
callerOptions(dryRun, noCommit, flag, lastCommits, override) ==
    [dryRun |-> dryRun, noCommit |-> noCommit, commit |-> TRUE,
     staged |-> flag = "staged", unstaged |-> flag = "unstaged",
     both |-> flag = "both", lastCommits |-> lastCommits, override |-> override]

WorkingOptions ==
    {callerOptions(d, n, m, "", o) :
        d \in BOOLEAN, n \in BOOLEAN, m \in AnalysisFlags, o \in Overrides}
    \cup {commanderOptions(d, n, m, "") :
        d \in BOOLEAN, n \in BOOLEAN, m \in AnalysisFlags}

LastCommitsOptions ==
    {callerOptions(d, n, "default", "2", o) :
        d \in BOOLEAN, n \in BOOLEAN, o \in Overrides}
    \cup {commanderOptions(d, n, "default", "2") : d \in BOOLEAN, n \in BOOLEAN}

\* --last-commits given together with --staged, --unstaged or --both
ConflictingOptions ==
    {commanderOptions(d, FALSE, m, "2") :
        d \in BOOLEAN, m \in AnalysisFlags \ {"default"}}

\* the part of the options getChanges reads
AnalysisMode(opts) ==
    [staged |-> opts.staged, unstaged |-> opts.unstaged, both |-> opts.both]

AnalysisModes == {AnalysisMode(o) : o \in WorkingOptions}

\* what git status can report when a run starts
RepoStatuses ==
    UNION {{[staged |-> InPathOrder(T, 1), modified |-> InPathOrder(S \ T, 1)] :
               T \in SUBSET S} : S \in ChangeSets}

\* what git diff HEAD~N HEAD can report when a run starts
RepoHistories == {InPathOrder(S, 1) : S \in ChangeSets}

\* getChanges, getLastCommitsChanges and the classification of the collected
\* text, tabulated over the repositories of the runs: a run looks its result up
getChangesOf == [m \in AnalysisModes, status \in RepoStatuses |-> getChanges(m, status)]

getLastCommitsChangesOf == [history \in RepoHistories |-> getLastCommitsChanges(history)]

CollectedTexts ==
    {getChangesOf[m, status] : m \in AnalysisModes, status \in RepoStatuses}
    \cup {getLastCommitsChangesOf[history] : history \in RepoHistories}

classify(changes, packageJsonExists) ==
    LET filtered == filterVersionChanges(changes)
    IN [filteredChanges |-> filtered,
        detectedChangeType |-> detectChangeType(filtered, packageJsonExists)]

classifyOf ==
    [changes \in CollectedTexts, packageJsonExists \in BOOLEAN |->
        classify(changes, packageJsonExists)]

\* a changed manifest is a file of the workspace
ManifestsExist(paths) ==
    /\ "package.json" \in paths => packageJson.exists
    /\ "package-lock.json" \in paths => packageLock.exists
    /\ "helm/Chart.yaml" \in paths => helmChart.exists

Init ==
    /\ \E ws \in Workspaces \cup InvalidWorkspaces :
          /\ ws.packageLock.exists => ws.packageJson.exists
          /\ packageJson = ws.packageJson
          /\ packageLock = ws.packageLock
          /\ helmChart = ws.helmChart
    /\ \/ /\ gitRepository = TRUE
          /\ options \in WorkingOptions
          /\ gitStatus \in RepoStatuses
          /\ ManifestsExist(PathsOf(gitStatus.staged) \cup PathsOf(gitStatus.modified))
          /\ gitHistory = <<>>
       \/ /\ gitRepository = TRUE
          /\ options \in LastCommitsOptions \cup ConflictingOptions
          /\ gitStatus = [staged |-> <<>>, modified |-> <<>>]
          /\ gitHistory \in RepoHistories
          /\ ManifestsExist(PathsOf(gitHistory))
       \/ /\ gitRepository = FALSE
          /\ options \in WorkingOptions \cup LastCommitsOptions
          /\ gitStatus = [staged |-> <<>>, modified |-> <<>>]
          /\ gitHistory = <<>>
    /\ pc = "validate"
    /\ combined = ""
    /\ filteredChanges = ""
    /\ detectedChangeType = ""
    /\ versionType = ""
    /\ attempt = 0
    /\ apiCalls = 0
    /\ messageCalls = 0
    /\ waits = <<>>
    /\ written = <<>>
    /\ commits = <<>>
    /\ failure = ""
    /\ before = [packageJson |-> packageJson, packageLock |-> packageLock,
                 helmChart |-> helmChart, gitRepository |-> gitRepository,
                 gitStatus |-> gitStatus,
                 gitHistory |-> gitHistory]
    /\ input = ""
    /\ param = ""
    /\ output = NoResult

\* the error validateEnvironment throws, "" when it returns
validateEnvironment(repo, pj, hc) ==
    IF ~repo THEN "Not in a git repository. Please run this command from a git repository."
    ELSE IF ~pj.exists /\ ~hc.exists
    THEN "Neither package.json nor Helm Chart.yaml found."
    ELSE IF pj.exists /\ pj.fault = "parse" THEN "package.json is not valid JSON."
    ELSE IF pj.exists /\ readError(pj) # "" THEN readError(pj)
    ELSE IF pj.exists /\ pj.version = ""
    THEN "package.json does not contain a version field."
    ELSE IF hc.exists /\ readHelmChart(hc) # ""
    THEN "Helm Chart.yaml validation failed: " \o readHelmChart(hc)
    ELSE IF hc.exists /\ hc.version = ""
    THEN "Helm Chart.yaml validation failed: Helm Chart.yaml does not contain a version field."
    ELSE ""

\* the check of the options left out
conflictingOptionsAllowed(opts) == ""

\* the error analyzeChanges throws for --last-commits next to another mode
conflictingOptions(opts) ==
    IF opts.lastCommits # "" /\ (opts.staged \/ opts.unstaged \/ opts.both)
    THEN "--last-commits cannot be used with --staged, --unstaged, or --both options"
    ELSE ""

\* validateEnvironment and the check of conflicting options
ValidateEnvironment ==
    /\ pc = "validate"
    /\ failure' =
          IF validateEnvironment(gitRepository, packageJson, helmChart) # ""
          THEN validateEnvironment(gitRepository, packageJson, helmChart)
          ELSE conflictingOptions(options)
    /\ pc' = IF failure' = "" THEN "collect" ELSE "failed"
    /\ UNCHANGED <<wsVars, gitVars, fnVars, options, combined, filteredChanges,
                   detectedChangeType, versionType, attempt, apiCalls, messageCalls, waits, written,
                   commits, before>>

\* analyzeChanges up to the test of the collected text; gitFails tells whether
\* git status or git diff throws
GetChanges ==
    /\ pc = "collect"
    /\ options.lastCommits = ""
    /\ \E gitFails \in BOOLEAN :
          /\ combined' = IF gitFails THEN "" ELSE getChangesOf[AnalysisMode(options), gitStatus]
          /\ failure' = IF gitFails THEN "Failed to get git diff" ELSE ""
          /\ pc' = IF gitFails THEN "failed"
                   ELSE IF Trim(combined') = "" THEN "done" ELSE "classify"
    /\ UNCHANGED <<wsVars, gitVars, fnVars, options, filteredChanges,
                   detectedChangeType, versionType, attempt, apiCalls, messageCalls, waits, written,
                   commits, before>>

\* analyzeLastCommits up to the test of the collected text; gitFails tells
\* whether git diff throws
GetLastCommitsChanges ==
    /\ pc = "collect"
    /\ options.lastCommits # ""
    /\ \E gitFails \in BOOLEAN :
          LET numberOfCommits == parseInt(options.lastCommits)
              invalid == numberOfCommits.nan \/ numberOfCommits.val < 1
          IN /\ combined' = IF invalid \/ gitFails THEN ""
                            ELSE getLastCommitsChangesOf[gitHistory]
             /\ failure' = IF invalid THEN "Invalid number of commits"
                           ELSE IF gitFails THEN "Failed to get changes from last commits"
                           ELSE ""
             /\ pc' = IF invalid \/ gitFails THEN "failed"
                      ELSE IF Trim(combined') = "" THEN "done" ELSE "classify"
    /\ UNCHANGED <<wsVars, gitVars, fnVars, options, filteredChanges,
                   detectedChangeType, versionType, attempt, apiCalls, messageCalls, waits, written,
                   commits, before>>

\* the run going on to the bump kind whatever the change type
noneGoesOn(type) == FALSE

\* analyzeChanges returns when the change type is 'none'
noneReturns(type) == type = "none"

\* filterVersionChanges, detectChangeType and the return on 'none'
ClassifyChanges ==
    /\ pc = "classify"
    /\ LET result == classifyOf[combined, packageJson.exists]
       IN /\ filteredChanges' = result.filteredChanges
          /\ detectedChangeType' = result.detectedChangeType.type
    /\ pc' = IF noneReturns(detectedChangeType') THEN "done" ELSE "decide"
    /\ UNCHANGED <<wsVars, gitVars, fnVars, options, combined, versionType,
                   attempt, apiCalls, messageCalls, waits, written, commits, failure, before>>

\* options.override left unread
overrideIgnored(opts) == FALSE

\* if (options.override)
overrideGiven(opts) == opts.override # ""

\* every override taken as the bump kind
overrideUnchecked(overrideValue) == TRUE

\* the override in lower case is one of major, minor, patch
isValidOverride(overrideValue) == overrideValue \in BumpKinds

\* the override, or the first attempt of analyzeWithOpenAI
DetermineVersionType ==
    /\ pc = "decide"
    /\ LET overrideValue == toLowerCase(options.override)
       IN IF overrideGiven(options)
          THEN IF isValidOverride(overrideValue)
               THEN /\ versionType' = overrideValue
                    /\ pc' = "apply"
                    /\ UNCHANGED <<attempt, failure>>
               ELSE /\ failure' = "Invalid override value"
                    /\ pc' = "failed"
                    /\ UNCHANGED <<attempt, versionType>>
          ELSE /\ attempt' = 1
               /\ pc' = "openai"
               /\ UNCHANGED <<versionType, failure>>
    /\ UNCHANGED <<wsVars, gitVars, fnVars, options, combined, filteredChanges,
                   detectedChangeType, apiCalls, messageCalls, waits, written, commits, before>>

\* what the API can answer: no answer at all, or a completion with a content
Contents == {"major", "\"Minor\"", "patch\n", "", "feature"}

Completions ==
    {[ok |-> FALSE, content |-> ""]} \cup {[ok |-> TRUE, content |-> c] : c \in Contents}

\* cleanResponse, tabulated over the contents
cleanResponseOf == [content \in Contents |-> cleanResponse(content)]

\* the same wait before every attempt
retryDelayFixed(failedAttempt) == 1000

\* the wait after a failed attempt, in ms
retryDelay(failedAttempt) == 1000 * failedAttempt

\* one attempt of the retry loop of analyzeWithOpenAI
AnalyzeWithOpenAI ==
    /\ pc = "openai"
    /\ attempt <= maxRetries
    /\ apiCalls' = apiCalls + 1
    /\ \E completion \in Completions :
          LET response == cleanResponseOf[completion.content]
          IN IF completion.ok /\ Trim(completion.content) # "" /\ response \in BumpKinds
             THEN /\ versionType' = response
                  /\ pc' = "apply"
                  /\ UNCHANGED <<attempt, waits, failure>>
             ELSE IF attempt < maxRetries
             THEN /\ attempt' = attempt + 1
                  /\ waits' = Append(waits, retryDelay(attempt))
                  /\ UNCHANGED <<pc, versionType, failure>>
             ELSE /\ failure' = "OpenAI API error after 3 attempts"
                  /\ pc' = "failed"
                  /\ UNCHANGED <<attempt, waits, versionType>>
    /\ UNCHANGED <<wsVars, gitVars, fnVars, options, combined, filteredChanges,
                   detectedChangeType, messageCalls, written, commits, before>>

\* the dry run ends the run before executeVersionBump
DryRunReport ==
    /\ pc = "apply"
    /\ options.dryRun
    /\ pc' = "done"
    /\ UNCHANGED <<wsVars, gitVars, fnVars, options, combined, filteredChanges,
                   detectedChangeType, versionType, attempt, apiCalls, messageCalls, waits, written,
                   commits, failure, before>>

\* a manifest the run wrote shows as modified in git status
Touched(status, files) ==
    LET fresh == {Change(files[i], IF files[i] = "package-lock.json" THEN "edit" ELSE "bump") :
                      i \in {j \in 1..Len(files) : files[j] \notin PathsOf(status.modified)}}
    IN [status EXCEPT !.modified = InPathOrder(Range(status.modified) \cup fresh, 1)]

\* executeVersionBump run without looking at options.dryRun
dryRunIgnored(opts) == FALSE

\* analyzeChanges returns before executeVersionBump on a dry run
dryRunReturns(opts) == opts.dryRun

\* the run once executeVersionBump returned or threw
Bumped(result) ==
    /\ packageJson' = result.ws.packageJson
    /\ packageLock' = result.ws.packageLock
    /\ helmChart' = result.ws.helmChart
    /\ written' = written \o result.written
    /\ gitStatus' = Touched(gitStatus, result.written)
    /\ failure' = executeVersionBumpError(result)
    /\ pc' = IF ~result.ok THEN "failed"
             ELSE IF options.lastCommits # "" THEN "commit"
             ELSE IF ~options.noCommit /\ ~options.dryRun THEN "commit"
             ELSE "done"

ExecuteVersionBump ==
    /\ pc = "apply"
    /\ ~dryRunReturns(options)
    /\ Bumped(executeVersionBump(Workspace(packageJson, packageLock, helmChart),
                                 versionType, detectedChangeType))
    /\ UNCHANGED <<gitRepository, gitHistory, fnVars, options, combined, filteredChanges,
                   detectedChangeType, versionType, attempt, apiCalls, messageCalls, waits, commits,
                   before>>

\* git add . : every modified file goes to the index
AddAll(status) ==
    [staged |-> InPathOrder(Range(status.staged) \cup Range(status.modified), 1),
     modified |-> <<>>]

\* a commit of the index; added are the paths git add took from the working
\* directory in this run: the commit holds their working-directory state, and
\* for every other path the state the index held before
Commit(status, added, message) ==
    [paths |-> PathsOf(status.staged), worktree |-> added, message |-> message]

\* the commit step throws when the commit message cannot be generated or git
\* rejects the commit; the catch wraps the error and throws it again
commitStepThrows(answered, accepted) == ~answered \/ ~accepted

\* the error of the commit step logged and the run ending as if it had passed
commitErrorLogged(error) == [pc |-> "done", failure |-> ""]

\* the error of the commit step leaves analyzeChanges, and the action of the
\* command line ends the process with status 1
commitErrorThrown(error) == [pc |-> "failed", failure |-> error]

\* the commit of the working-directory mode; answered tells whether the API
\* gave a commit message, accepted whether git took the commit
GenerateCommitMessageAndCommit ==
    /\ pc = "commit"
    /\ options.lastCommits = ""
    /\ LET index == IF options.staged THEN gitStatus ELSE AddAll(gitStatus)
           added == IF options.staged THEN {} ELSE PathsOf(gitStatus.modified)
       IN IF Trim(GitDiff(index.staged)) = ""
          THEN /\ gitStatus' = index
               /\ pc' = "done"
               /\ UNCHANGED <<messageCalls, commits, failure>>
          ELSE \E answered \in BOOLEAN, accepted \in BOOLEAN :
                  /\ messageCalls' = messageCalls + 1
                  /\ IF ~commitStepThrows(answered, accepted)
                     THEN /\ commits' = Append(commits, Commit(index, added, "generated"))
                          /\ gitStatus' = [index EXCEPT !.staged = <<>>]
                          /\ pc' = "done"
                          /\ UNCHANGED failure
                     ELSE /\ gitStatus' = index
                          /\ pc' = commitErrorThrown("Failed to commit changes").pc
                          /\ failure' = commitErrorThrown("Failed to commit changes").failure
                          /\ UNCHANGED commits
    /\ UNCHANGED <<wsVars, gitRepository, gitHistory, fnVars, options, combined, filteredChanges,
                   detectedChangeType, versionType, attempt, apiCalls, waits,
                   written, before>>

\* the manifests that exist, as commitVersionBump lists them
filesToStage(ws) ==
    (IF ws.packageJson.exists
     THEN <<"package.json">>
          \o (IF ws.packageLock.exists THEN <<"package-lock.json">> ELSE <<>>)
     ELSE <<>>)
    \o (IF ws.helmChart.exists THEN <<"helm/Chart.yaml">> ELSE <<>>)

\* git add of the listed files
AddFiles(status, files) ==
    LET picked == {c \in Range(status.modified) : c.path \in Range(files)}
    IN [staged |-> InPathOrder(Range(status.staged) \cup picked, 1),
        modified |-> InPathOrder(Range(status.modified) \ picked, 1)]

\* the commit of the last-commits mode
CommitVersionBump ==
    /\ pc = "commit"
    /\ options.lastCommits # ""
    /\ LET files == filesToStage(Workspace(packageJson, packageLock, helmChart))
           index == AddFiles(gitStatus, files)
       IN IF Len(files) = 0
          THEN /\ pc' = "done"
               /\ UNCHANGED <<gitStatus, commits, failure>>
          ELSE \E accepted \in BOOLEAN :
                  IF ~commitStepThrows(TRUE, accepted /\ Len(index.staged) > 0)
                  THEN /\ commits' = Append(commits,
                                            Commit(index,
                                                   PathsOf(gitStatus.modified) \cap Range(files),
                                                   "chore: bump version to " \o versionType))
                       /\ gitStatus' = [index EXCEPT !.staged = <<>>]
                       /\ pc' = "done"
                       /\ UNCHANGED failure
                  ELSE /\ gitStatus' = index
                       /\ pc' = commitErrorThrown("Failed to commit version bump").pc
                       /\ failure' = commitErrorThrown("Failed to commit version bump").failure
                       /\ UNCHANGED commits
    /\ UNCHANGED <<wsVars, gitRepository, gitHistory, fnVars, options, combined, filteredChanges,
                   detectedChangeType, versionType, attempt, apiCalls, messageCalls, waits, written,
                   before>>

Next ==
    \/ ValidateEnvironment
    \/ GetChanges
    \/ GetLastCommitsChanges
    \/ ClassifyChanges
    \/ DetermineVersionType
    \/ AnalyzeWithOpenAI
    \/ DryRunReport
    \/ ExecuteVersionBump
    \/ GenerateCommitMessageAndCommit
    \/ CommitVersionBump

Spec == Init /\ [][Next]_vars

-----------------------------------------------------------------------------
(* Properties of the run *)

\* the paths changed in the repository when the run started
ChangedPaths ==
    PathsOf(before.gitStatus.staged) \cup PathsOf(before.gitStatus.modified)
    \cup PathsOf(before.gitHistory)

\* the changes of the repository when the run started
ChangesAtStart ==
    Range(before.gitStatus.staged) \cup Range(before.gitStatus.modified)
    \cup Range(before.gitHistory)

\* the run analyses every change of the repository
AnalysesAllChanges == ~options.staged /\ ~options.unstaged

\* the run has passed detectChangeType
Classified == pc \in {"decide", "openai", "apply", "commit", "done", "failed"} /\ filteredChanges # ""

\* the run has passed executeVersionBump, which returned
BumpReturned == pc \in {"commit", "done"} /\ ~options.dryRun /\ versionType \in BumpKinds

\* C1: after a successful run that is no dry run, whose change type is 'both',
\* in a workspace with both manifests, package.json and helm/Chart.yaml both
\* hold their old version bumped by the kind of the run.
C1_BothManifestsBumped ==
    (/\ pc = "done"
     /\ BumpReturned
     /\ detectedChangeType = "both"
     /\ before.packageJson.exists
     /\ before.helmChart.exists)
    => /\ packageJson.version = bumpVersion(before.packageJson.version, versionType).value
       /\ helmChart.version = bumpVersion(before.helmChart.version, versionType).value

\* C2: with package.json present, a diff that touches only helm/Chart.yaml and
\* helm/scripts/deploy.sh is classified 'helm-only' whatever the Chart.yaml
\* hunk holds; a 'minor' bump then makes the chart version 1.1.0 out of 1.0.0
\* and package.json is not written.
C2_ChartAndScriptIsHelmOnly ==
    (/\ before.packageJson.exists
     /\ before.helmChart.exists
     /\ ChangedPaths = {"helm/Chart.yaml", "helm/scripts/deploy.sh"}
     /\ AnalysesAllChanges
     /\ Classified)
    => /\ detectedChangeType = "helm-only"
       /\ "package.json" \notin Range(written)
       /\ (BumpReturned /\ versionType = "minor" /\ before.helmChart.version = "1.0.0")
             => helmChart.version = "1.1.0"

\* C3: executeVersionBump with change type 'helm-only' rewrites helm/Chart.yaml
\* alone: the chart version is the old one bumped by the kind of the run, and
\* package.json, package-lock.json and the chart's appVersion keep their values.
C3_HelmOnlyRewritesChartOnly ==
    (detectedChangeType = "helm-only" /\ pc \in {"commit", "done", "failed"})
    => /\ packageJson = before.packageJson
       /\ packageLock = before.packageLock
       /\ helmChart.appVersion = before.helmChart.appVersion
       /\ Range(written) \subseteq {"helm/Chart.yaml"}
       /\ BumpReturned
             => /\ written = <<"helm/Chart.yaml">>
                /\ helmChart.version
                      = bumpVersion(before.helmChart.version, versionType).value

C3_Witness ==
    /\ pc = "done"
    /\ detectedChangeType = "helm-only"
    /\ versionType = "minor"
    /\ written = <<"helm/Chart.yaml">>
    /\ before.helmChart.version = "1.0.0"
    /\ helmChart.version = "1.1.0"
    /\ helmChart.appVersion = "2.3.1"
    /\ packageJson.exists
    /\ packageJson.version = "2.3.1"

\* C4: after a successful run that is no dry run, with change type 'app-only'
\* and package.json present, package.json holds its old version bumped by the
\* kind of the run; an existing chart has that version as its appVersion, and
\* without a chart the sync is skipped and does not fail the run.
C4_AppOnlyBumpsAndSyncs ==
    (detectedChangeType = "app-only" /\ before.packageJson.exists)
    => /\ ~StartsWith(failure, "Failed to execute version bump")
       /\ (pc = "done" /\ BumpReturned)
             => /\ packageJson.version
                      = bumpVersion(before.packageJson.version, versionType).value
                /\ helmChart.exists => helmChart.appVersion = packageJson.version
                /\ ~before.helmChart.exists => helmChart = before.helmChart

C4_Witness ==
    /\ pc = "done"
    /\ detectedChangeType = "app-only"
    /\ versionType = "patch"
    /\ ChangedPaths = {"src/index.ts"}
    /\ before.packageJson.version = "2.3.1"
    /\ packageJson.version = "2.3.2"
    /\ helmChart.exists
    /\ helmChart.appVersion = "2.3.2"
    /\ helmChart.version = before.helmChart.version

\* C6: when the only added and deleted lines of the diff are the version pair
\* of a prior bump of package.json, inside an ordinary hunk, the change type is
\* 'none' and the run makes no call to the classifier and writes no manifest.
C6_PriorBumpIsNone ==
    (ChangesAtStart = {Change("package.json", "bump")} /\ Classified)
    => /\ detectedChangeType = "none"
       /\ apiCalls = 0
       /\ written = <<>>

\* the paths of the runs that match a rule of EXCLUDED_FILES
C9_ExcludedPaths == {"logs/debug.log", "package-lock.json"}

\* C9: when every changed path matches a rule of EXCLUDED_FILES, the diff
\* handed on is empty in both modes, its change type is 'none', and the run
\* calls no classifier, writes no manifest and creates no commit.
C9_ExcludedOnlyNoAction ==
    (ChangedPaths # {} /\ ChangedPaths \subseteq C9_ExcludedPaths)
    => /\ combined = ""
       /\ pc \in {"validate", "collect", "done", "failed"}
       /\ pc = "failed" =>
             failure \in {validateEnvironment(before.gitRepository, before.packageJson,
                                              before.helmChart),
                          conflictingOptions(options), "Failed to get git diff",
                          "Failed to get changes from last commits"}
       /\ detectChangeType(combined, packageJson.exists).type = "none"
       /\ apiCalls = 0
       /\ written = <<>>
       /\ commits = <<>>
       /\ <<packageJson, packageLock, helmChart>>
             = <<before.packageJson, before.packageLock, before.helmChart>>

C9_Witness ==
    /\ pc = "done"
    /\ ChangedPaths = C9_ExcludedPaths
    /\ PathsOf(gitHistory) = C9_ExcludedPaths
    /\ options.lastCommits # ""
    /\ combined = ""

\* C11: in working-directory mode, a run started from the command line with
\* --no-commit requests no commit message from the external API, stages
\* nothing and creates no commit.
C11_NoCommitFlagSkipsCommit ==
    (options.lastCommits = "" /\ ~options.commit)
    => /\ messageCalls = 0
       /\ gitStatus.staged = before.gitStatus.staged
       /\ commits = <<>>

\* C12: with --dry-run, in both modes, for every change type and bump kind,
\* a run writes no manifest, stages no file and creates no commit.
C12_DryRunChangesNothing ==
    options.dryRun
    => /\ written = <<>>
       /\ packageJson = before.packageJson
       /\ packageLock = before.packageLock
       /\ helmChart = before.helmChart
       /\ gitStatus = before.gitStatus
       /\ commits = <<>>

\* a dry run of the last-commits mode that fixed a bump kind for changes of
\* both kinds
C12_Witness ==
    /\ options.dryRun
    /\ options.lastCommits # ""
    /\ pc = "done"
    /\ detectedChangeType = "both"
    /\ versionType = "major"
    /\ written = <<>>

\* C13: when --last-commits is given together with --staged, --unstaged or
\* --both, analyzeChanges fails with an error: the run collects and analyses
\* no diff, calls no classifier, writes no manifest and creates no commit.
C13_ConflictingOptionsFail ==
    (options.lastCommits # "" /\ (options.staged \/ options.unstaged \/ options.both))
    => /\ pc \in {"validate", "failed"}
       /\ pc = "failed" => failure # ""
       /\ combined = ""
       /\ filteredChanges = ""
       /\ detectedChangeType = ""
       /\ apiCalls = 0
       /\ written = <<>>
       /\ commits = <<>>
       /\ <<packageJson, packageLock, helmChart>>
             = <<before.packageJson, before.packageLock, before.helmChart>>

\* the run failed on the options, with changes in the last commits
C13_Witness ==
    /\ pc = "failed"
    /\ options.lastCommits = "2"
    /\ options.unstaged
    /\ gitHistory # <<>>
    /\ failure = "--last-commits cannot be used with --staged, --unstaged, or --both options"

\* the waits of a call of analyzeWithOpenAI that made n calls
LinearWaits(n) == [k \in 1..(n - 1) |-> 1000 * k]

\* the run went through analyzeWithOpenAI, which returned or threw
ClassifierAsked ==
    pc \notin {"validate", "collect", "classify", "decide", "openai"} /\ attempt > 0

\* C14: analyzeWithOpenAI calls the classifier at most 3 times in a run: a
\* valid response at attempt k is returned with k calls made and none after;
\* a failure at attempt k < 3 is followed by a wait of 1000*k ms and a new
\* attempt; after the third failed attempt the run fails with 3 calls made.
C14_AtMostThreeCalls ==
    /\ apiCalls <= 3
    /\ pc = "openai" => /\ attempt \in 1..3
                        /\ apiCalls = attempt - 1
                        /\ waits = LinearWaits(attempt)
    /\ ClassifierAsked =>
          /\ apiCalls = attempt
          /\ waits = LinearWaits(attempt)
          /\ versionType \in BumpKinds \/ (pc = "failed" /\ apiCalls = 3)
          /\ (pc = "failed" /\ versionType = "") =>
                 failure = "OpenAI API error after 3 attempts"

\* the third attempt got a valid response after two failed ones
C14_Witness ==
    /\ pc = "apply"
    /\ attempt = 3
    /\ apiCalls = 3
    /\ waits = <<1000, 2000>>
    /\ versionType = "major"

\* C15: with an override in {major, minor, patch} and a change type other
\* than none, the bump kind of the run is the override and the run goes to
\* the bump without a call to the external API, in both modes.
C15_OverrideSkipsClassifier ==
    (options.override \in BumpKinds /\ detectedChangeType \notin {"", "none"})
    => /\ pc \in {"decide", "apply", "commit", "done", "failed"}
       /\ pc # "decide" => versionType = options.override
       /\ attempt = 0
       /\ apiCalls = 0
       /\ waits = <<>>
       /\ written = <<>> => messageCalls = 0
       /\ pc = "failed" => \/ StartsWith(failure, "Failed to execute version bump")
                           \/ StartsWith(failure, "Failed to commit")

\* a run of the last-commits mode that bumped by the override
C15_Witness ==
    /\ options.override = "patch"
    /\ options.lastCommits # ""
    /\ detectedChangeType = "app-only"
    /\ pc = "commit"
    /\ versionType = "patch"
    /\ packageJson.version = "2.3.2"
    /\ apiCalls = 0

\* C16: when detectChangeType yields none the run ends there: no classifier
\* call, no manifest write and no commit, in both modes, with and without an
\* override.
C16_NoneIsTerminal ==
    detectedChangeType = "none"
    => /\ pc = "done"
       /\ versionType = ""
       /\ apiCalls = 0
       /\ messageCalls = 0
       /\ written = <<>>
       /\ commits = <<>>
       /\ gitStatus = before.gitStatus
       /\ <<packageJson, packageLock, helmChart>>
             = <<before.packageJson, before.packageLock, before.helmChart>>

\* a run with an override whose diff holds a bare version pair alone
C16_Witness ==
    /\ detectedChangeType = "none"
    /\ combined # ""
    /\ options.override # ""
    /\ pc = "done"

\* the commit step of the run threw
CommitStepFailed == StartsWith(failure, "Failed to commit")

\* the run reaches the commit step once the manifests are written
CommitEnabled == options.lastCommits # "" \/ ~options.noCommit

\* the manifests hold what the bump of the run gave them
ManifestsBumped ==
    /\ (detectedChangeType = "helm-only" \/ ~before.packageJson.exists)
          => /\ helmChart.version = bumpVersion(before.helmChart.version, versionType).value
             /\ packageJson = before.packageJson
    /\ (detectedChangeType \in {"app-only", "both"} /\ before.packageJson.exists)
          => /\ packageJson.version
                   = bumpVersion(before.packageJson.version, versionType).value
             /\ packageLock.exists => packageLock.version = packageJson.version
             /\ helmChart.exists => helmChart.appVersion = packageJson.version

\* C17 as stated: a failure of the commit step after the manifests were
\* written does not fail the run, which ends successfully with the manifests
\* bumped.
C17_CommitFailureNotFatal ==
    CommitStepFailed => (pc = "done" /\ ManifestsBumped)

\* C17 amended: a failure of the commit step after the manifests were written
\* fails the run with the error 'Failed to commit ...'; no commit is created,
\* the manifests keep their bumped versions; a run with the commit enabled
\* that wrote manifests ends successfully only with its commit created.
C17_CommitFailureFailsRun ==
    /\ CommitStepFailed => /\ pc = "failed"
                           /\ written # <<>>
                           /\ commits = <<>>
                           /\ ManifestsBumped
    /\ (pc = "done" /\ written # <<>> /\ CommitEnabled) => Len(commits) = 1

\* the commit of a working-directory run was rejected after package.json,
\* package-lock.json and the chart were rewritten
C17_Witness ==
    /\ pc = "failed"
    /\ failure = "Failed to commit changes"
    /\ written = <<"package.json", "package-lock.json", "helm/Chart.yaml">>
    /\ packageJson.version = "2.3.2"
    /\ packageLock.version = "2.3.2"
    /\ helmChart.appVersion = "2.3.2"
    /\ messageCalls = 1

\* C18: a commit the run creates after rewriting manifests holds the new
\* state of every manifest the run rewrote, in every analysis mode.
C18_CommitHoldsRewrittenManifests ==
    \A i \in 1..Len(commits) : Range(written) \subseteq commits[i].worktree

\* the run failed before a bump kind was fixed: in validateEnvironment, on the
\* options, in the collection of the changes, on the override or in the
\* classification
FailedBeforeBump ==
    /\ pc = "failed"
    /\ ~StartsWith(failure, "Failed to execute version bump")
    /\ ~CommitStepFailed

\* nothing of the workspace or the repository differs from the start of the run
NothingChanged ==
    /\ written = <<>>
    /\ commits = <<>>
    /\ messageCalls = 0
    /\ packageJson = before.packageJson
    /\ packageLock = before.packageLock
    /\ helmChart = before.helmChart
    /\ gitStatus = before.gitStatus

\* C22: no manifest is written and no commit is created before a bump kind in
\* {major, minor, patch} is fixed, by a valid override or by a validated
\* response of the classifier; a run that fails in validateEnvironment, in the
\* collection of the changes or in the classification, the exhaustion of the
\* retries included, leaves every manifest as it was.
C22_NothingBeforeBumpKind ==
    /\ versionType \in BumpKinds \cup {""}
    /\ versionType = "" => NothingChanged
    /\ versionType # "" =>
          IF options.override # "" THEN versionType = toLowerCase(options.override) /\ apiCalls = 0
          ELSE apiCalls >= 1
    /\ FailedBeforeBump => (versionType = "" /\ NothingChanged)
    /\ validateEnvironment(before.gitRepository, before.packageJson, before.helmChart) # ""
          => (pc \in {"validate", "failed"} /\ NothingChanged)

\* the classifier gave no valid response in three attempts, in a workspace
\* with both manifests and the lock file
C22_Witness ==
    /\ pc = "failed"
    /\ failure = "OpenAI API error after 3 attempts"
    /\ apiCalls = 3
    /\ versionType = ""
    /\ packageJson.exists /\ packageLock.exists /\ helmChart.exists
    /\ NothingChanged

====
